---- MODULE Spec2Model ----
(***************************************************************************)
(* Bundle dashboard backend (server.js): the retrying call wrappers, the   *)
(* paginated catalog / order-history crawls of the report, and the         *)
(* create-bundles / update-bundles pipelines with the shared limiter.      *)
(*                                                                         *)
(* The platform (Shopify) is the environment: it picks the answer to every *)
(* transport attempt.                                                      *)
(***************************************************************************)
EXTENDS Integers, Sequences, FiniteSets, TLC

VARIABLES
    call,       \* the wrapper invocation under way (SpecWrapper)
    history,    \* the platform's answers to its transport attempts, in order
    slept       \* the waits (ms) the wrapper made, in order

\* the report request GET / (SpecReport)
VARIABLES
    revision,       \* which revision of the file serves the request
    fn,             \* the crawling function run: fetchProductsAndBundles or fetchBundleMappings
    catalog,        \* platform: the product catalog, as the pages it serves
    orderHistory,   \* platform: the order history, as the pages it serves
    rpc,            \* position of the request
    products,       \* products accumulated by the catalog crawl
    mappings,       \* mappings accumulated by fetchBundleMappings
    cursor,         \* cursor of the catalog crawl
    hasNextPage,    \* hasNextPage of the catalog crawl
    catalogAfter,   \* the cursors the catalog page requests paged from, in order
    sales,          \* locals of fetchAndAggregateSales
    ordersAfter,    \* the cursors the order page requests paged from, in order
    fetchLog,       \* how each page fetch (a wrapper call) of the request ended, in order
    report          \* what the request answered

\* the requests served concurrently, the limiter and the platform (SpecServer)
VARIABLES
    batch,      \* the create-bundles request: body, chunk loop, results, response
    pipes,      \* the processProduct pipelines of the batch, by position in product_ids
    update,     \* the update-bundles request
    visits,     \* the track-bundle-visit requests
    limiter,    \* the Bottleneck limiter behind the limited axios methods
    wire,       \* the outbound requests in flight at the platform
    stored      \* platform: the bundle.visitors metafield of the product visited

WrapperVars == <<call, history, slept>>

ReportVars ==
    <<revision, fn, catalog, orderHistory, rpc, products, mappings, cursor,
      hasNextPage, catalogAfter, sales, ordersAfter, fetchLog, report>>

\* one maintenance request on the products of a shop (SpecShop)
VARIABLES
    shop,       \* platform: the products the request is about, by product id
    req,        \* the request: endpoint, body, response
    sent        \* the requests the handler sent to the platform, in order

ShopVars == <<shop, req, sent>>

ServerVars == <<batch, pipes, update, visits, limiter, wire, stored, ShopVars>>

vars == <<WrapperVars, ReportVars, ServerVars>>

----------------------------------------------------------------------------
(* Bounds of the model *)

\* payloads a platform answer may carry (data of a 200, body of an error)
MaxData == 2

----------------------------------------------------------------------------
(* Platform answers to one transport attempt (axios outcome) *)

\* retry-after header values the platform may send ("absent": no header)
RetryAfterHeaders == {"absent", "0", "3"}

\* error codes of the entries of a GraphQL errors list
ErrorCodes == {"THROTTLED", "OTHER"}

ErrorLists == {<<>>, <<"THROTTLED">>, <<"OTHER">>, <<"OTHER", "THROTTLED">>}

Payloads == 1..MaxData

\* a 2xx answer whose body is the GraphQL envelope {data: d}
OkData(d) ==
    [http |-> "ok", status |-> 200, retryAfter |-> "absent", isObject |-> TRUE,
     hasErrors |-> FALSE, errors |-> <<>>, hasData |-> TRUE, data |-> d]

\* a 2xx answer whose body carries an errors list (and no data)
OkErrors(es) ==
    [http |-> "ok", status |-> 200, retryAfter |-> "absent", isObject |-> TRUE,
     hasErrors |-> TRUE, errors |-> es, hasData |-> FALSE, data |-> 0]

\* a 2xx answer whose body is an object with neither errors nor data
OkNoData ==
    [http |-> "ok", status |-> 200, retryAfter |-> "absent", isObject |-> TRUE,
     hasErrors |-> FALSE, errors |-> <<>>, hasData |-> FALSE, data |-> 0]

\* a 2xx answer whose body is not an object (null, a string)
OkNotObject ==
    [http |-> "ok", status |-> 200, retryAfter |-> "absent", isObject |-> FALSE,
     hasErrors |-> FALSE, errors |-> <<>>, hasData |-> FALSE, data |-> 0]

\* axios rejects with err.response set: a non-2xx status, headers and a body
HttpError(s, ra, b) ==
    [http |-> "error", status |-> s, retryAfter |-> ra, isObject |-> TRUE,
     hasErrors |-> FALSE, errors |-> <<>>, hasData |-> TRUE, data |-> b]

\* axios rejects with no err.response (connection reset, timeout)
NetworkError ==
    [http |-> "network", status |-> 0, retryAfter |-> "absent", isObject |-> FALSE,
     hasErrors |-> FALSE, errors |-> <<>>, hasData |-> FALSE, data |-> 0]

Answers ==
    {OkData(d) : d \in Payloads}
    \cup {OkErrors(es) : es \in ErrorLists}
    \cup {OkNoData, OkNotObject, NetworkError}
    \cup {HttpError(429, ra, 1) : ra \in RetryAfterHeaders}
    \cup {HttpError(s, "absent", b) : s \in {404, 500}, b \in Payloads}

----------------------------------------------------------------------------
(* The retrying wrappers: shopifyApiCall and shopifyGraphQLCall *)

\* fault injection: an off-by-one retry budget (C1 detects it)
maxRetries_OffByOne == 3 + 1

maxRetries == 3

\* the methods shopifyApiCall dispatches on; any other string matches no branch
RestMethods == {"get", "post", "put", "delete"}

Methods == RestMethods \cup {"patch"}

Urls == {"/products/1.json", "/products/1/variants/7.json"}

NoOutcome ==
    [status |-> "pending", error |-> "none", cause |-> "none", target |-> "none",
     hasStatus |-> FALSE, httpStatus |-> 0, body |-> 0, value |-> 0]

\* return v
Returned(v) == [NoOutcome EXCEPT !.status = "returned", !.value = v]

\* throw new Error(`Max retries (${maxRetries}) exceeded for ${target}`)
MaxRetriesExceeded(t) ==
    [NoOutcome EXCEPT !.status = "thrown", !.error = "MaxRetries", !.target = t]

\* throw new Error(`<API|GraphQL> call failed: ${err.message}${err.response ? `, status: ..., data: ...` : ''}`)
CallFailed(e, why, ans) ==
    [NoOutcome EXCEPT !.status = "thrown", !.error = e, !.cause = why,
                      !.hasStatus = (ans.http = "error"),
                      !.httpStatus = IF ans.http = "error" THEN ans.status ELSE 0,
                      !.body = IF ans.http = "error" THEN ans.data ELSE 0]

\* parseInt(s, 10) on the header strings of RetryAfterHeaders
parseInt(s) == CASE s = "0" -> 0 [] s = "3" -> 3

retryAfter_Default(ans) == 2 * 1000

\* parseInt(err.response.headers["retry-after"] || 2, 10) * 1000
retryAfter(ans) ==
    IF ans.retryAfter = "absent" THEN 2 * 1000 ELSE parseInt(ans.retryAfter) * 1000

\* const retryAfter = 2000 of the THROTTLED branch
throttledRetryAfter == 2000

\* fault injection: every HTTP error status is taken for a rate limit (C5 detects it)
IsRateLimit_AnyStatus(ans) == ans.http = "error"

\* err.response?.status === 429
IsRateLimit(ans) == ans.http = "error" /\ ans.status = 429

\* fault injection: only the first entry of the errors list is inspected (C3 detects it)
hasThrottled_FirstOnly(es) == Len(es) > 0 /\ es[1] = "THROTTLED"

\* fault injection: any non-empty errors list counts as throttling (C4 detects it)
hasThrottled_AnyError(es) == Len(es) > 0

\* graphData.errors.some(e => e.extensions?.code === "THROTTLED")
hasThrottled(es) == \E i \in 1..Len(es) : es[i] = "THROTTLED"

\* a call as shopifyApiCall(method, url) or shopifyGraphQLCall(query) enters its loop
NewCall(w, m, t) ==
    [wrapper |-> w, method |-> m, target |-> t, attempt |-> 0, pc |-> "loop",
     sent |-> 0, sleepMs |-> 0, outcome |-> NoOutcome]

\* the catch branch for 429: wait, attempt++, continue
RetryAfterWait(c, ms) == [c EXCEPT !.pc = "sleep", !.sleepMs = ms]

Finish(c, o) == [c EXCEPT !.pc = "done", !.outcome = o]

\* while (attempt < maxRetries) { try { <issue the request> ... } } throw Max retries
CallLoop(c) ==
    IF c.attempt < maxRetries
    THEN IF c.wrapper = "graphql" \/ c.method \in RestMethods
         THEN [c EXCEPT !.pc = "await", !.sent = @ + 1]
         ELSE c
    ELSE Finish(c, MaxRetriesExceeded(c.target))

\* fault injection: the success branch lacks its return, so the loop goes on (C2 detects it)
shopifyApiCall_OnAnswer_NoReturn(c, ans) ==
    IF ans.http = "ok"
    THEN [c EXCEPT !.pc = "loop"]
    ELSE IF IsRateLimit(ans)
         THEN RetryAfterWait(c, retryAfter(ans))
         ELSE Finish(c, CallFailed("ApiCallFailed", ans.http, ans))

\* shopifyApiCall: the awaited request settles with answer ans
shopifyApiCall_OnAnswer(c, ans) ==
    IF ans.http = "ok"
    THEN Finish(c, Returned(ans))
    ELSE IF IsRateLimit(ans)
         THEN RetryAfterWait(c, retryAfter(ans))
         ELSE Finish(c, CallFailed("ApiCallFailed", ans.http, ans))

\* fault injection: the THROTTLED branch lacks its attempt++, so throttled
\* answers draw on no budget (C31 detects it)
shopifyGraphQLCall_OnAnswer_ThrottledFree(c, ans) ==
    IF ans.http = "ok" /\ ans.isObject /\ ans.hasErrors /\ hasThrottled(ans.errors)
    THEN [RetryAfterWait(c, throttledRetryAfter) EXCEPT !.attempt = @ - 1]
    ELSE IF ans.http = "ok"
         THEN IF ~ans.isObject
              THEN Finish(c, CallFailed("GraphQLCallFailed", "InvalidResponse", ans))
              ELSE IF ans.hasErrors
                   THEN Finish(c, CallFailed("GraphQLCallFailed", "GraphQLErrors", ans))
                   ELSE IF ~ans.hasData
                        THEN Finish(c, CallFailed("GraphQLCallFailed", "MissingData", ans))
                        ELSE Finish(c, Returned(ans.data))
         ELSE IF IsRateLimit(ans)
              THEN RetryAfterWait(c, retryAfter(ans))
              ELSE Finish(c, CallFailed("GraphQLCallFailed", ans.http, ans))

\* shopifyGraphQLCall: the awaited request settles with answer ans
shopifyGraphQLCall_OnAnswer(c, ans) ==
    IF ans.http = "ok"
    THEN IF ~ans.isObject
         THEN Finish(c, CallFailed("GraphQLCallFailed", "InvalidResponse", ans))
         ELSE IF ans.hasErrors
              THEN IF hasThrottled(ans.errors)
                   THEN RetryAfterWait(c, throttledRetryAfter)
                   ELSE Finish(c, CallFailed("GraphQLCallFailed", "GraphQLErrors", ans))
              ELSE IF ~ans.hasData
                   THEN Finish(c, CallFailed("GraphQLCallFailed", "MissingData", ans))
                   ELSE Finish(c, Returned(ans.data))
    ELSE IF IsRateLimit(ans)
         THEN RetryAfterWait(c, retryAfter(ans))
         ELSE Finish(c, CallFailed("GraphQLCallFailed", ans.http, ans))

OnAnswer(c, ans) ==
    IF c.wrapper = "graphql"
    THEN shopifyGraphQLCall_OnAnswer(c, ans)
    ELSE shopifyApiCall_OnAnswer(c, ans)

\* the setTimeout of a wait fires: attempt++; continue
AfterWait(c) == [c EXCEPT !.pc = "loop", !.attempt = @ + 1, !.sleepMs = 0]

----------------------------------------------------------------------------
(* SpecWrapper: one call through a wrapper, the platform answering freely *)

\* no report request is served
ReportIdle ==
    /\ revision = "server.js"
    /\ fn = "none"
    /\ catalog = <<>>
    /\ orderHistory = <<>>
    /\ rpc = "idle"
    /\ products = <<>>
    /\ mappings = <<>>
    /\ cursor = 0
    /\ hasNextPage = FALSE
    /\ catalogAfter = <<>>
    /\ sales = <<>>
    /\ ordersAfter = <<>>
    /\ fetchLog = <<>>
    /\ report = <<>>

\* no create, update or visit request is served
ShopIdle ==
    /\ shop = <<>>
    /\ req = <<>>
    /\ sent = <<>>

ServerIdle ==
    /\ batch = <<>>
    /\ pipes = <<>>
    /\ update = <<>>
    /\ visits = <<>>
    /\ limiter = <<>>
    /\ wire = {}
    /\ stored = <<>>
    /\ ShopIdle

InitWrapper ==
    /\ call \in {NewCall("graphql", "post", "GraphQL")}
                \cup {NewCall("rest", m, u) : m \in Methods, u \in Urls}
    /\ history = <<>>
    /\ slept = <<>>
    /\ ReportIdle
    /\ ServerIdle

\* the loop test, and the request handed to the limited axios method
Loop ==
    /\ call.pc = "loop"
    /\ call' = CallLoop(call)
    /\ UNCHANGED <<history, slept, ReportVars, ServerVars>>

\* the platform answers the request in flight
Answer ==
    /\ call.pc = "await"
    /\ \E ans \in Answers :
        /\ call' = OnAnswer(call, ans)
        /\ history' = Append(history, ans)
    /\ UNCHANGED <<slept, ReportVars, ServerVars>>

\* the wait ends
Wake ==
    /\ call.pc = "sleep"
    /\ call' = AfterWait(call)
    /\ slept' = Append(slept, call.sleepMs)
    /\ UNCHANGED <<history, ReportVars, ServerVars>>

\* a whole call: the wrapper run on the platform's answers, one per attempt
RECURSIVE RunCall(_, _)
RunCall(c, answers) ==
    CASE c.pc = "loop" ->
            IF CallLoop(c) = c THEN c ELSE RunCall(CallLoop(c), answers)
      [] c.pc = "sleep" -> RunCall(AfterWait(c), answers)
      [] c.pc = "await" ->
            IF answers = <<>> THEN c
            ELSE RunCall(OnAnswer(c, Head(answers)), Tail(answers))
      [] OTHER -> c

NextWrapper == Loop \/ Answer \/ Wake

SpecWrapper == InitWrapper /\ [][NextWrapper]_vars

\* the same call on an event loop that keeps running: a step that can be
\* taken is taken (the platform answers, the timer of a wait fires)
SpecWrapperFair == SpecWrapper /\ WF_vars(NextWrapper)

----------------------------------------------------------------------------
(* Properties of the wrappers, checked under SpecWrapper *)

Last(s) == s[Len(s)]

Is429(a) == a.http = "error" /\ a.status = 429

IsThrottledAnswer(a) ==
    a.http = "ok" /\ a.isObject /\ a.hasErrors
    /\ \E i \in 1..Len(a.errors) : a.errors[i] = "THROTTLED"

\* what each wrapper takes for a success
IsSuccess(w, a) ==
    a.http = "ok" /\ (w = "rest" \/ (a.isObject /\ ~a.hasErrors /\ a.hasData))

\* a 200 the GraphQL wrapper must reject: errors without THROTTLED, no object, no data
IsHardGraphQL(a) ==
    /\ a.http = "ok"
    /\ \/ ~a.isObject
       \/ a.hasErrors /\ ~IsThrottledAnswer(a)
       \/ ~a.hasErrors /\ ~a.hasData

\* a transport or HTTP failure other than 429
IsOtherFailure(a) == a.http = "network" \/ (a.http = "error" /\ a.status # 429)

\* C1: a call (REST or global GraphQL wrapper) whose every attempt is answered
\* with 429 never makes a 4th attempt, and when it ends it has made exactly 3
\* attempts and failed with the max-retries error naming its target, never
\* with the generic call-failed error.
C1_Always429ThreeAttempts ==
    (\A i \in 1..Len(history) : Is429(history[i])) =>
        /\ call.sent <= 3
        /\ call.outcome.error \notin {"ApiCallFailed", "GraphQLCallFailed"}
        /\ call.outcome.status # "returned"
        /\ call.pc = "done" =>
            /\ call.sent = 3
            /\ Len(history) = 3
            /\ call.outcome.status = "thrown"
            /\ call.outcome.error = "MaxRetries"
            /\ call.outcome.target = call.target

C1_Witness ==
    /\ call.pc = "done"
    /\ Len(history) = 3
    /\ \A i \in 1..3 : Is429(history[i])
    /\ call.outcome.error = "MaxRetries"
    /\ call.wrapper = "rest"

\* C2: the wrappers stop at the first successful attempt: a success is the
\* last answer of the call, no attempt follows it, and the call returns that
\* attempt's result (so 429 then success returns the second result after 2
\* attempts, and a first-attempt success makes exactly 1 attempt).
C2_StopAtFirstSuccess ==
    \A k \in 1..Len(history) :
        IsSuccess(call.wrapper, history[k]) =>
            /\ k = Len(history)
            /\ call.sent = k
            /\ call.pc = "done"
            /\ call.outcome.status = "returned"
            /\ IF call.wrapper = "graphql"
               THEN call.outcome.value = history[k].data
               ELSE call.outcome.value = history[k]

C2_Witness ==
    /\ Len(history) = 2
    /\ Is429(history[1])
    /\ IsSuccess(call.wrapper, history[2])
    /\ call.outcome.status = "returned"
    /\ call.sent = 2

\* C3: in the global GraphQL wrapper a 200 whose errors list holds a
\* THROTTLED entry is followed by a 2000 ms wait and then a retry; throttled
\* on every attempt, the call makes exactly 3 attempts and fails with the
\* max-retries error; throttled and then answered with data, it returns it.
C3_ThrottledRetried ==
    call.wrapper = "graphql" =>
        /\ \A k \in 1..Len(history) :
             IsThrottledAnswer(history[k]) =>
                /\ IF k <= Len(slept)
                   THEN slept[k] = 2000
                   ELSE call.pc = "sleep" /\ call.sleepMs = 2000
                /\ (k <= Len(slept) /\ k < 3) =>
                     \/ call.sent >= k + 1
                     \/ call.pc = "loop" /\ call.attempt = k
        /\ (\A i \in 1..Len(history) : IsThrottledAnswer(history[i])) =>
             /\ call.sent <= 3
             /\ call.pc = "done" =>
                  /\ call.sent = 3
                  /\ call.outcome.status = "thrown"
                  /\ call.outcome.error = "MaxRetries"
        /\ (/\ history # <<>>
            /\ \A i \in 1..(Len(history) - 1) : IsThrottledAnswer(history[i])
            /\ IsSuccess("graphql", Last(history))) =>
             /\ call.outcome.status = "returned"
             /\ call.outcome.value = Last(history).data

C3_Witness ==
    /\ call.wrapper = "graphql"
    /\ Len(history) = 3
    /\ \A i \in 1..3 : IsThrottledAnswer(history[i])
    /\ history[1].errors = <<"OTHER", "THROTTLED">>
    /\ call.pc = "done"
    /\ call.outcome.error = "MaxRetries"

\* C4: in the global GraphQL wrapper a 200 with an errors list without a
\* THROTTLED entry, a body that is no object, or a body without data ends the
\* call in failure at that attempt, whichever attempt it is: no attempt follows.
C4_HardGraphQLFailsAtOnce ==
    call.wrapper = "graphql" =>
        \A k \in 1..Len(history) :
            IsHardGraphQL(history[k]) =>
                /\ k = Len(history)
                /\ call.sent = k
                /\ call.pc = "done"
                /\ call.outcome.status = "thrown"
                /\ call.outcome.error = "GraphQLCallFailed"

C4_Witness ==
    /\ call.wrapper = "graphql"
    /\ Len(history) = 2
    /\ IsHardGraphQL(history[2])
    /\ history[2].errors = <<"OTHER">>
    /\ call.pc = "done"
    /\ call.sent = 2

\* C5: in both wrappers an attempt failing with a transport or HTTP error
\* other than 429 ends the call in failure at once, no attempt follows, and
\* when a response exists the error carries its status code and body.
C5_OtherFailureFailsAtOnce ==
    \A k \in 1..Len(history) :
        IsOtherFailure(history[k]) =>
            /\ k = Len(history)
            /\ call.sent = k
            /\ call.pc = "done"
            /\ call.outcome.status = "thrown"
            /\ call.outcome.error =
                 (IF call.wrapper = "graphql" THEN "GraphQLCallFailed" ELSE "ApiCallFailed")
            /\ call.outcome.hasStatus = (history[k].http = "error")
            /\ history[k].http = "error" =>
                 /\ call.outcome.httpStatus = history[k].status
                 /\ call.outcome.body = history[k].data

C5_Witness ==
    /\ Len(history) = 2
    /\ history[2].http = "error"
    /\ history[2].status = 500
    /\ call.pc = "done"
    /\ call.outcome.hasStatus
    /\ call.outcome.httpStatus = 500

----------------------------------------------------------------------------
(* The platform's catalog and order history, as the report request sees them *)

\* products in the catalog
MaxProducts == 3

\* pages of the order history
MaxOrderPages == 12

Option(n, vs) == [name |-> n, values |-> vs]

SelectedOption(n, v) == [name |-> n, value |-> v]

\* a variant node; sku 0 stands for a variant without SKU
Variant(gid, sku, opts, avail) ==
    [id |-> gid, sku |-> sku, selectedOptions |-> opts, available |-> avail]

TierVariant(gid, sku, tier) == Variant(gid, sku, <<SelectedOption("Bundle", tier)>>, 4)

\* products on the shelf: products of many shapes, each put alone in a catalog
MaxShelf == 64

\* variants(first: 10) of the products query
variantsFirst == 10

ShelfIds == 101..(100 + MaxShelf)

AvailChoices == <<0, 3, 4, 7>>

TitleValues == <<"T1", "T2", "T3", "T4", "T5", "T6", "T7", "T8", "T9", "T10">>

BundleValues == <<"Single", "1x", "2x", "3x">>

\* the product of the shelf with id i, as the platform holds it: its shape,
\* the available quantity of its variants and its title are read off i.
\* The shapes: no option but Title; the Bundle option with its three tiers;
\* a Bundle option without 3x; a Size option beside the Bundle option; a Size
\* option alone; a Bundle option and a Title option of ten values, forty
\* variants, in either order of the options; a Bundle option without tiers
ShelfProduct(i) ==
    LET c == i - 101
        shape == c % 8
        a == AvailChoices[((c \div 8) % 4) + 1]
        V(n, opts) == Variant(i * 100 + n, i * 100 + n, opts, a)
        B(t) == SelectedOption("Bundle", t)
        T(t) == SelectedOption("Title", t)
        S == SelectedOption("Size", "S")
        shaped ==
            CASE shape = 0 ->
                    [options |-> <<Option("Title", <<"Default Title">>)>>,
                     variants |-> <<V(1, <<T("Default Title")>>)>>]
              [] shape = 1 ->
                    [options |-> <<Option("Bundle", <<"1x", "2x", "3x">>)>>,
                     variants |-> [n \in 1..3 |-> V(n, <<B(BundleValues[n + 1])>>)]]
              [] shape = 2 ->
                    [options |-> <<Option("Bundle", <<"1x", "2x">>)>>,
                     variants |-> [n \in 1..2 |-> V(n, <<B(BundleValues[n + 1])>>)]]
              [] shape = 3 ->
                    [options |-> <<Option("Size", <<"S">>), Option("Bundle", <<"1x", "2x", "3x">>)>>,
                     variants |-> [n \in 1..3 |-> V(n, <<S, B(BundleValues[n + 1])>>)]]
              [] shape = 4 ->
                    [options |-> <<Option("Size", <<"S">>)>>,
                     variants |-> <<V(1, <<S>>)>>]
              [] shape = 5 ->
                    [options |-> <<Option("Bundle", BundleValues), Option("Title", TitleValues)>>,
                     variants |-> [n \in 1..40 |->
                                     V(n, <<B(BundleValues[((n - 1) \div 10) + 1]),
                                            T(TitleValues[((n - 1) % 10) + 1])>>)]]
              [] shape = 6 ->
                    [options |-> <<Option("Title", TitleValues), Option("Bundle", BundleValues)>>,
                     variants |-> [n \in 1..40 |->
                                     V(n, <<T(TitleValues[((n - 1) \div 4) + 1]),
                                            B(BundleValues[((n - 1) % 4) + 1])>>)]]
              [] OTHER ->
                    [options |-> <<Option("Bundle", <<"Single">>)>>,
                     variants |-> <<V(1, <<B("Single")>>)>>]
    IN  [id |-> i, title |-> (c \div 32) % 2,
         options |-> shaped.options, variants |-> shaped.variants]

\* the product with id i of the catalogs that are crawled: a plain product, a
\* bundle product with its three tiers, or a product with a Bundle option whose
\* 1x tier reuses the SKU of the product before it and whose 2x tier has no SKU
CatalogProduct(i) ==
    CASE i % 3 = 1 ->
            [id |-> i, title |-> (i * 3) % 7,
             options |-> <<Option("Title", <<"Default Title">>)>>,
             variants |-> <<Variant(i * 10, 0, <<SelectedOption("Title", "Default Title")>>, 5)>>]
      [] i % 3 = 2 ->
            [id |-> i, title |-> (i * 3) % 7,
             options |-> <<Option("Bundle", <<"1x", "2x", "3x">>)>>,
             variants |-> <<TierVariant(i * 10 + 3, i * 10 + 3, "3x"),
                            TierVariant(i * 10 + 1, i * 10 + 1, "1x"),
                            TierVariant(i * 10 + 2, i * 10 + 2, "2x")>>]
      [] OTHER ->
            [id |-> i, title |-> (i * 3) % 7,
             options |-> <<Option("Size", <<"S">>), Option("Bundle", <<"3x", "2x", "1x">>)>>,
             variants |-> <<TierVariant(i * 10 + 1, (i - 1) * 10 + 1, "1x"),
                            TierVariant(i * 10 + 2, 0, "2x")>>]

\* the product with id i, as the platform holds it
PlatformProduct(i) == IF i \in ShelfIds THEN ShelfProduct(i) ELSE CatalogProduct(i)

\* the node of product i in an answer to the products query: of its variants,
\* the first ten
ProductOf(i) ==
    LET p == PlatformProduct(i)
    IN  [p EXCEPT !.variants = SubSeq(@, 1, IF Len(@) < variantsFirst THEN Len(@)
                                            ELSE variantsFirst)]

RECURSIVE PagesFrom(_, _, _)
\* the ids lo..n in order, cut into pages after each id of cuts
PagesFrom(lo, n, cuts) ==
    IF lo > n THEN <<>>
    ELSE LET hi == CHOOSE h \in lo..n :
                      /\ h \in cuts \/ h = n
                      /\ \A j \in lo..(h - 1) : j \notin cuts
         IN  <<[i \in 1..(hi - lo + 1) |-> lo + i - 1]>> \o PagesFrom(hi + 1, n, cuts)

\* the catalogs: a single empty page, or products 1..n on non-empty pages
Catalogs ==
    {<< <<>> >>}
    \cup {PagesFrom(1, n, cuts) : n \in 1..MaxProducts, cuts \in SUBSET (1..MaxProducts)}

LineItem(gid, sku, q) == [variant |-> gid, sku |-> sku, quantity |-> q]

\* page k of the order history of kind p: one order.  In the histories of
\* kind 2 the SKU 22 is sold under the variant that carries it now (22) and
\* under a variant that carried it before and was deleted (122)
OrderPage(p, k) ==
    CASE p = 1 -> << <<LineItem(21, 21, 1)>> >>
      [] p = 2 -> << <<LineItem(122, 22, 1 + (k % 2)), LineItem(22, 22, 1),
                        LineItem(21, 21, 2)>> >>
      [] OTHER -> IF k % 2 = 1
                  THEN << <<LineItem(10, 0, 1), LineItem(999, 999, 3)>> >>
                  ELSE << <<LineItem(23, 23, k)>> >>

OrderHistories ==
    {<<>>} \cup {[k \in 1..m |-> OrderPage(p, k)] : m \in 1..MaxOrderPages, p \in 1..3}

\* data.products of the answer to products(first: 250, after: after)
ProductsData(cat, after) ==
    LET k == 1 + Cardinality({j \in 1..Len(cat) :
                                cat[j] # <<>> /\ cat[j][Len(cat[j])] <= after})
    IN  IF k > Len(cat)
        THEN [shape |-> "products", edges |-> <<>>,
              pageInfo |-> [hasNextPage |-> FALSE, endCursor |-> 0]]
        ELSE [shape |-> "products", edges |-> cat[k],
              pageInfo |-> [hasNextPage |-> k < Len(cat),
                            endCursor |-> IF cat[k] = <<>> THEN 0
                                          ELSE cat[k][Len(cat[k])]]]

\* data.orders of the answer to orders(first: 250, after: after)
OrdersData(hist, after) ==
    IF after + 1 > Len(hist)
    THEN [shape |-> "orders", edges |-> <<>>,
          pageInfo |-> [hasNextPage |-> FALSE, endCursor |-> 0]]
    ELSE [shape |-> "orders", edges |-> hist[after + 1],
          pageInfo |-> [hasNextPage |-> after + 1 < Len(hist), endCursor |-> after + 1]]

\* a data payload without the field the caller reads (data.products / data.orders)
OtherData ==
    [shape |-> "other", edges |-> <<>>, pageInfo |-> [hasNextPage |-> FALSE, endCursor |-> 0]]

\* answers after which the wrapper retries
Retriable == {HttpError(429, "absent", 1), OkErrors(<<"THROTTLED">>)}

\* the retried attempts that may come before the last answer of a call
RetriedPrefixes ==
    {<<>>, <<HttpError(429, "absent", 1)>>,
     <<OkErrors(<<"THROTTLED">>), HttpError(429, "absent", 1)>>}

\* the platform's answers to the attempts of one GraphQL call whose query, when
\* answered, yields data d: retried attempts and a last answer, or a retried
\* answer to every attempt the wrapper makes
AnswerRuns(d) ==
    {pre \o <<last>> :
        pre \in RetriedPrefixes,
        last \in {OkData(d), OkData(OtherData), OkErrors(<<"OTHER">>),
                  HttpError(500, "absent", 1)}}
    \cup {[i \in 1..maxRetries |-> r] : r \in Retriable}

\* await shopifyGraphQLCall(query, variables), the platform answering with run
GraphQLResult(run) == RunCall(NewCall("graphql", "post", "GraphQL"), run)

Settled(c, run) == c.pc = "done" /\ c.sent = Len(run)

----------------------------------------------------------------------------
(* fetchProductsAndBundles, fetchBundleMappings: the catalog crawl *)

Includes(seq, x) == \E i \in 1..Len(seq) : seq[i] = x

RECURSIVE Flatten(_)
Flatten(ss) == IF ss = <<>> THEN <<>> ELSE Head(ss) \o Flatten(Tail(ss))

RECURSIVE SumSeq(_)
SumSeq(ns) == IF ns = <<>> THEN 0 ELSE Head(ns) + SumSeq(Tail(ns))

\* Array.prototype.sort with a comparator a.key - b.key (a stable sort)
SortedBy(seq, Key(_)) ==
    LET n == Len(seq)
        rank(i) == 1 + Cardinality({j \in 1..n :
                          \/ Key(seq[j]) < Key(seq[i])
                          \/ Key(seq[j]) = Key(seq[i]) /\ j < i})
    IN  [r \in 1..n |-> seq[CHOOSE i \in 1..n : rank(i) = r]]

\* fault injection: a page is put before the pages fetched so far (C8 detects it)
concat_Prepend(acc, page) == page \o acc

\* products = products.concat(page)
concat(acc, page) == acc \o page

\* the error response of GET / for a crawl that threw err
\* (throw new Error(`Failed to fetch ...: ${err.message}`), then res.status(500))
FetchFailed(wrap, err) ==
    [status |-> "error", wrap |-> wrap, cause |-> err,
     filteredProducts |-> <<>>, bundledProducts |-> <<>>]

\* throw new Error(`Invalid response structure: ...`)
InvalidResponseStructure ==
    [NoOutcome EXCEPT !.status = "thrown", !.error = "InvalidResponseStructure"]

\* reading data.orders.pageInfo of a payload without orders
TypeError == [NoOutcome EXCEPT !.status = "thrown", !.error = "TypeError"]

Pending ==
    [status |-> "pending", wrap |-> "none", cause |-> NoOutcome,
     filteredProducts |-> <<>>, bundledProducts |-> <<>>]

OperationType_Mutation(document) == "mutation"

\* the operation type a GraphQL document opens with: `query fetchProducts(...)`,
\* `query GetVariantSales(...)`, `mutation productVariantsBulkCreate(...)`, ...
OperationType(document) ==
    IF document \in {"fetchProducts", "GetVariantSales"} THEN "query" ELSE "mutation"

\* what a wrapper call sent and how it ended, for the log
Ended(c, document) ==
    [status |-> c.outcome.status, error |-> c.outcome.error, cause |-> c.outcome.cause,
     shape |-> IF c.outcome.status = "returned" THEN c.outcome.value.shape ELSE "none",
     document |-> document, operation |-> OperationType(document)]

\* v.selectedOptions.find(opt => opt.name === "Bundle")?.value
option1(v) ==
    IF \E i \in 1..Len(v.selectedOptions) : v.selectedOptions[i].name = "Bundle"
    THEN v.selectedOptions[CHOOSE i \in 1..Len(v.selectedOptions) :
                             /\ v.selectedOptions[i].name = "Bundle"
                             /\ \A j \in 1..(i - 1) : v.selectedOptions[j].name # "Bundle"].value
    ELSE "undefined"

\* ["1x", "2x", "3x"].includes(option1)
IsTierVariant(v) == option1(v) \in {"1x", "2x", "3x"}

\* product.options.some(opt => opt.name === "Bundle" && opt.values.includes("1x") && ...)
hasBundleOption(p) ==
    \E i \in 1..Len(p.options) :
        /\ p.options[i].name = "Bundle"
        /\ Includes(p.options[i].values, "1x")
        /\ Includes(p.options[i].values, "2x")
        /\ Includes(p.options[i].values, "3x")

\* parseInt(type) of a tier name
tierOf(type) == CASE type = "1x" -> 1 [] type = "2x" -> 2 [] type = "3x" -> 3

\* the tier variants of the products with the Bundle option, in traversal order
TierVariants(ps) ==
    Flatten([i \in 1..Len(ps) |->
                IF hasBundleOption(ProductOf(ps[i]))
                THEN SelectSeq(ProductOf(ps[i]).variants, IsTierVariant)
                ELSE <<>>])

\* allBundleVariantGids after the classification
allBundleVariantGids(ps) == [i \in 1..Len(TierVariants(ps)) |-> TierVariants(ps)[i].id]

\* skuToGidMap after the classification: each SKU to the last variant carrying it
skuToGidMap(ps) ==
    LET vs == TierVariants(ps)
    IN  [sku \in {vs[i].sku : i \in 1..Len(vs)} \ {0} |->
            vs[CHOOSE i \in 1..Len(vs) :
                  /\ vs[i].sku = sku
                  /\ \A j \in (i + 1)..Len(vs) : vs[j].sku # sku].id]

TierKey(b) == tierOf(b.type)

\* variants.find(v => !["1x", "2x", "3x"].includes(option1)) || variants[0]
baseVariant(variants) ==
    IF \E i \in 1..Len(variants) : ~IsTierVariant(variants[i])
    THEN variants[CHOOSE i \in 1..Len(variants) :
                     /\ ~IsTierVariant(variants[i])
                     /\ \A j \in 1..(i - 1) : IsTierVariant(variants[j])]
    ELSE variants[1]

\* fault injection: tier variants are not looked for (C35 detects it)
hasBundleVariants_Never(p) == FALSE

\* variants.some(v => ["1x", "2x", "3x"].includes(option1))
hasBundleVariants(p) == \E i \in 1..Len(p.variants) : IsTierVariant(p.variants[i])

\* product.options.some(opt => opt.name !== "Bundle" && opt.name !== "Title")
hasNonBundleOptions(p) ==
    \E i \in 1..Len(p.options) : p.options[i].name \notin {"Bundle", "Title"}

\* the filter of filteredProducts, for one product node
IsEligible(p) ==
    /\ p.variants # <<>>
    /\ baseVariant(p.variants).available > 3
    /\ ~hasBundleVariants(p)
    /\ ~hasNonBundleOptions(p)

IsEligibleId(id) == IsEligible(ProductOf(id))

TitleKey(p) == p.title

\* the bundles of one product: one entry per tier variant, sorted by tier
bundlesOf(p) ==
    LET vs == SelectSeq(p.variants, IsTierVariant)
    IN  SortedBy([i \in 1..Len(vs) |->
                    [type |-> option1(vs[i]), variantId |-> vs[i].id,
                     variantGid |-> vs[i].id, sku |-> vs[i].sku,
                     available |-> vs[i].available, totalOrders |-> 0]],
                 TierKey)

HasBundles(id) == hasBundleOption(ProductOf(id)) /\ bundlesOf(ProductOf(id)) # <<>>

\* salesMap.get(gid) || 0
MapGet(map, k) == IF k \in DOMAIN map THEN map[k] ELSE 0

\* bundledProducts as returned: totalOrders folded in, variantGid and sku
\* deleted, sorted by title
bundledProducts(ps, salesMap) ==
    LET ids == SelectSeq(ps, HasBundles)
        withSales(bs) ==
            [j \in 1..Len(bs) |->
                [type |-> bs[j].type, variantId |-> bs[j].variantId,
                 available |-> bs[j].available,
                 totalOrders |-> MapGet(salesMap, bs[j].variantGid)]]
        entry(id) ==
            LET bs == withSales(bundlesOf(ProductOf(id)))
            IN  [id |-> id, title |-> ProductOf(id).title, bundles |-> bs,
                 totalSold |-> SumSeq([j \in 1..Len(bs) |-> bs[j].totalOrders])]
    IN  SortedBy([i \in 1..Len(ids) |-> entry(ids[i])], TitleKey)

\* filteredProducts as returned: the eligible products, sorted by title
filteredProducts(ps) ==
    LET ids == SelectSeq(ps, IsEligibleId)
    IN  SortedBy([i \in 1..Len(ids) |-> [id |-> ids[i], title |-> ProductOf(ids[i]).title]],
                 TitleKey)

\* the mapping entry fetchBundleMappings builds for one bundle product
mappingOf(p) ==
    LET last(t) ==
            IF \E i \in 1..Len(p.variants) : option1(p.variants[i]) = t
            THEN p.variants[CHOOSE i \in 1..Len(p.variants) :
                               /\ option1(p.variants[i]) = t
                               /\ \A j \in (i + 1)..Len(p.variants) :
                                      option1(p.variants[j]) # t].id
            ELSE 0
    IN  [product_id |-> p.id,
         variant_ids |-> [t \in {"1x", "2x", "3x"} |-> last(t)]]

HasBundleOptionId(id) == hasBundleOption(ProductOf(id))

\* bundleProds.map(...) of one page
mappingsOf(edges) ==
    LET ids == SelectSeq(edges, HasBundleOptionId)
    IN  [i \in 1..Len(ids) |-> mappingOf(ProductOf(ids[i]))]

\* fault injection: a failed page fetch is swallowed and the crawl goes on (C9 detects it)
catchCrawl_Swallow(wrap, err) == [rpc |-> rpc, report |-> report]

\* catch (err) { throw new Error(`Failed to fetch ...`) }: the request ends in error
catchCrawl(wrap, err) == [rpc |-> "done", report |-> FetchFailed(wrap, err)]

\* one turn of the while (hasNextPage) loop of fetchProductsAndBundles
CatalogFetch ==
    /\ rpc = "catalog"
    /\ fn = "fetchProductsAndBundles"
    /\ hasNextPage
    /\ \E run \in AnswerRuns(ProductsData(catalog, cursor)) :
        LET c == GraphQLResult(run)
            data == c.outcome.value
            caught == catchCrawl("Failed to fetch products",
                                 IF c.outcome.status = "returned"
                                 THEN InvalidResponseStructure ELSE c.outcome)
        IN  /\ Settled(c, run)
            /\ catalogAfter' = Append(catalogAfter, cursor)
            /\ fetchLog' = Append(fetchLog, Ended(c, "fetchProducts"))
            /\ IF c.outcome.status = "returned" /\ data.shape = "products"
               THEN /\ products' = concat(products, data.edges)
                    /\ cursor' = data.pageInfo.endCursor
                    /\ hasNextPage' = data.pageInfo.hasNextPage
                    /\ UNCHANGED <<rpc, report>>
               ELSE /\ rpc' = caught.rpc
                    /\ report' = caught.report
                    /\ UNCHANGED <<products, cursor, hasNextPage>>
    /\ UNCHANGED <<revision, fn, catalog, orderHistory, mappings, sales, ordersAfter>>
    /\ UNCHANGED <<WrapperVars, ServerVars>>

\* one turn of the while (hasNextPage) loop of fetchBundleMappings
MappingsFetch ==
    /\ rpc = "catalog"
    /\ fn = "fetchBundleMappings"
    /\ hasNextPage
    /\ \E run \in AnswerRuns(ProductsData(catalog, cursor)) :
        LET c == GraphQLResult(run)
            data == c.outcome.value
            caught == catchCrawl("Failed to fetch bundle mappings",
                                 IF c.outcome.status = "returned"
                                 THEN InvalidResponseStructure ELSE c.outcome)
        IN  /\ Settled(c, run)
            /\ catalogAfter' = Append(catalogAfter, cursor)
            /\ fetchLog' = Append(fetchLog, Ended(c, "fetchProducts"))
            /\ IF c.outcome.status = "returned" /\ data.shape = "products"
               THEN /\ mappings' = concat(mappings, mappingsOf(data.edges))
                    /\ cursor' = data.pageInfo.endCursor
                    /\ hasNextPage' = data.pageInfo.hasNextPage
                    /\ UNCHANGED <<rpc, report>>
               ELSE /\ rpc' = caught.rpc
                    /\ report' = caught.report
                    /\ UNCHANGED <<mappings, cursor, hasNextPage>>
    /\ UNCHANGED <<revision, fn, catalog, orderHistory, products, sales, ordersAfter>>
    /\ UNCHANGED <<WrapperVars, ServerVars>>

\* fetchBundleMappings leaves its loop: return mappings
MappingsReturn ==
    /\ rpc = "catalog"
    /\ fn = "fetchBundleMappings"
    /\ ~hasNextPage
    /\ rpc' = "done"
    /\ report' = [Pending EXCEPT !.status = "ok"]
    /\ UNCHANGED <<revision, fn, catalog, orderHistory, products, mappings, cursor,
                   hasNextPage, catalogAfter, sales, ordersAfter, fetchLog>>
    /\ UNCHANGED <<WrapperVars, ServerVars>>

----------------------------------------------------------------------------
(* fetchAndAggregateSales: the order-history crawl, in both revisions *)

\* fault injection: the page cap is missing from the loop test (C10)
MAX_PAGES_Absent == MaxOrderPages + 1

MAX_PAGES == 10

CHUNK_SIZE == 50

\* page fetches the uncapped loop of the older revision is followed for
MaxFetches == 12

\* arr cut into consecutive chunks of at most size elements
chunksOf(arr, size) ==
    [c \in 1..((Len(arr) + size - 1) \div size) |->
        SubSeq(arr, (c - 1) * size + 1,
               IF c * size < Len(arr) THEN c * size ELSE Len(arr))]

NoSales == [hasNextPage |-> FALSE, cursor |-> 0, pageCount |-> 0, chunkIx |-> 0, map |-> <<>>]

\* the locals of fetchAndAggregateSales as its first loop is entered; the map
\* is skuSalesMap (by SKU) in server.js and salesMap (by variant id) before
SalesStart(rev, ps) ==
    [hasNextPage |-> TRUE, cursor |-> 0, pageCount |-> 0, chunkIx |-> 1,
     map |-> IF rev = "server.js"
             THEN [sku \in DOMAIN skuToGidMap(ps) |-> 0]
             ELSE [gid \in {allBundleVariantGids(ps)[i] :
                              i \in 1..Len(allBundleVariantGids(ps))} |-> 0]]

\* the two forEach loops of server.js: quantities added by SKU, for bundle SKUs
aggregateBySku(map, edges) ==
    LET items == Flatten(edges)
        mine(sku) == SelectSeq(items, LAMBDA it : it.sku = sku)
    IN  [sku \in DOMAIN map |->
            map[sku] + SumSeq([i \in 1..Len(mine(sku)) |-> mine(sku)[i].quantity])]

\* the two forEach loops before: quantities added by variant id, for the chunk's ids
aggregateByVariant(map, edges, chunk) ==
    LET items == Flatten(edges)
        mine(gid) == SelectSeq(items, LAMBDA it : it.variant = gid)
    IN  [gid \in DOMAIN map |->
            IF Includes(chunk, gid)
            THEN map[gid] + SumSeq([i \in 1..Len(mine(gid)) |-> mine(gid)[i].quantity])
            ELSE map[gid]]

\* finalGidSalesMap: the total of each SKU under the variant skuToGidMap names
finalGidSalesMap(ps, skuSalesMap) ==
    LET m == skuToGidMap(ps)
    IN  [gid \in {m[sku] : sku \in DOMAIN m} |->
            skuSalesMap[CHOOSE sku \in DOMAIN m : m[sku] = gid]]

\* the report as rendered when fetchProductsAndBundles returns
ReportOk(ps, salesMap) ==
    [Pending EXCEPT !.status = "ok", !.filteredProducts = filteredProducts(ps),
                    !.bundledProducts = bundledProducts(ps, salesMap)]

\* the catalog loop is left: classification, then fetchAndAggregateSales is
\* entered (it returns an empty map at once when there is no tier variant)
Classify ==
    /\ rpc = "catalog"
    /\ fn = "fetchProductsAndBundles"
    /\ ~hasNextPage
    /\ IF allBundleVariantGids(products) = <<>>
       THEN /\ rpc' = "done"
            /\ report' = ReportOk(products, <<>>)
            /\ UNCHANGED sales
       ELSE /\ rpc' = "sales"
            /\ sales' = SalesStart(revision, products)
            /\ UNCHANGED report
    /\ UNCHANGED <<revision, fn, catalog, orderHistory, products, mappings, cursor,
                   hasNextPage, catalogAfter, ordersAfter, fetchLog>>
    /\ UNCHANGED <<WrapperVars, ServerVars>>

\* server.js: while (hasNextPage && pageCount < MAX_PAGES)
SalesLoopTest == sales.hasNextPage /\ sales.pageCount < MAX_PAGES

\* server.js: one turn of the loop (the 500 ms pause before the next turn included)
SalesFetch ==
    /\ rpc = "sales"
    /\ revision = "server.js"
    /\ SalesLoopTest
    /\ \E run \in AnswerRuns(OrdersData(orderHistory, sales.cursor)) :
        LET c == GraphQLResult(run)
            data == c.outcome.value
            caught == catchCrawl("Failed to fetch products",
                                 IF c.outcome.status = "returned"
                                 THEN TypeError ELSE c.outcome)
        IN  /\ Settled(c, run)
            /\ ordersAfter' = Append(ordersAfter, sales.cursor)
            /\ fetchLog' = Append(fetchLog, Ended(c, "GetVariantSales"))
            /\ IF c.outcome.status = "returned" /\ data.shape = "orders"
               THEN /\ sales' = [sales EXCEPT
                                   !.pageCount = @ + 1,
                                   !.map = aggregateBySku(@, data.edges),
                                   !.cursor = data.pageInfo.endCursor,
                                   !.hasNextPage = data.pageInfo.hasNextPage]
                    /\ UNCHANGED <<rpc, report>>
               ELSE /\ rpc' = caught.rpc
                    /\ report' = caught.report
                    /\ sales' = IF c.outcome.status = "returned"
                                THEN [sales EXCEPT !.pageCount = @ + 1]
                                ELSE sales
    /\ UNCHANGED <<revision, fn, catalog, orderHistory, products, mappings, cursor,
                   hasNextPage, catalogAfter>>
    /\ UNCHANGED <<WrapperVars, ServerVars>>

\* server.js: the loop is left; totals go from SKU to variant and into the report
SalesReturn ==
    /\ rpc = "sales"
    /\ revision = "server.js"
    /\ ~SalesLoopTest
    /\ rpc' = "done"
    /\ report' = ReportOk(products, finalGidSalesMap(products, sales.map))
    /\ UNCHANGED <<revision, fn, catalog, orderHistory, products, mappings, cursor,
                   hasNextPage, catalogAfter, sales, ordersAfter, fetchLog>>
    /\ UNCHANGED <<WrapperVars, ServerVars>>

\* the older revision: the chunks of variant ids the query filters on
SalesChunks == chunksOf(allBundleVariantGids(products), CHUNK_SIZE)

\* the older revision: one turn of while (chunkHasNextPage) for the current
\* chunk; its query has no cursor argument, so every request pages from the start
SalesFetchOld ==
    /\ rpc = "sales"
    /\ revision = "part_000"
    /\ sales.chunkIx <= Len(SalesChunks)
    /\ sales.hasNextPage
    /\ Len(ordersAfter) < MaxFetches
    /\ \E run \in AnswerRuns(OrdersData(orderHistory, 0)) :
        LET c == GraphQLResult(run)
            data == c.outcome.value
            caught == catchCrawl("Failed to fetch products",
                                 IF c.outcome.status = "returned"
                                 THEN TypeError ELSE c.outcome)
        IN  /\ Settled(c, run)
            /\ ordersAfter' = Append(ordersAfter, 0)
            /\ fetchLog' = Append(fetchLog, Ended(c, "GetVariantSales"))
            /\ IF c.outcome.status = "returned" /\ data.shape = "orders"
               THEN /\ sales' =
                        IF data.pageInfo.hasNextPage
                        THEN [sales EXCEPT
                                !.pageCount = @ + 1,
                                !.map = aggregateByVariant(@, data.edges,
                                                           SalesChunks[sales.chunkIx]),
                                !.cursor = data.pageInfo.endCursor]
                        ELSE [sales EXCEPT
                                !.pageCount = @ + 1,
                                !.map = aggregateByVariant(@, data.edges,
                                                           SalesChunks[sales.chunkIx]),
                                !.cursor = 0,
                                !.chunkIx = @ + 1]
                    /\ UNCHANGED <<rpc, report>>
               ELSE /\ rpc' = caught.rpc
                    /\ report' = caught.report
                    /\ UNCHANGED sales
    /\ UNCHANGED <<revision, fn, catalog, orderHistory, products, mappings, cursor,
                   hasNextPage, catalogAfter>>
    /\ UNCHANGED <<WrapperVars, ServerVars>>

\* the older revision: every chunk is done; the totals by variant id go into the report
SalesReturnOld ==
    /\ rpc = "sales"
    /\ revision = "part_000"
    /\ sales.chunkIx > Len(SalesChunks)
    /\ rpc' = "done"
    /\ report' = ReportOk(products, sales.map)
    /\ UNCHANGED <<revision, fn, catalog, orderHistory, products, mappings, cursor,
                   hasNextPage, catalogAfter, sales, ordersAfter, fetchLog>>
    /\ UNCHANGED <<WrapperVars, ServerVars>>

----------------------------------------------------------------------------
(* SpecReport: one report request (or one fetchBundleMappings call) *)

InitReport ==
    /\ fn \in {"fetchProductsAndBundles", "fetchBundleMappings"}
    /\ revision \in {"server.js", "part_000"}
    /\ catalog \in Catalogs
    /\ orderHistory \in OrderHistories
    /\ fn = "fetchBundleMappings" => revision = "server.js" /\ orderHistory = <<>>
    /\ rpc = "catalog"
    /\ products = <<>>
    /\ mappings = <<>>
    /\ cursor = 0
    /\ hasNextPage = TRUE
    /\ catalogAfter = <<>>
    /\ sales = NoSales
    /\ ordersAfter = <<>>
    /\ fetchLog = <<>>
    /\ report = Pending
    /\ call = NewCall("graphql", "post", "GraphQL")
    /\ history = <<>>
    /\ slept = <<>>
    /\ ServerIdle

NextReport ==
    \/ CatalogFetch
    \/ MappingsFetch
    \/ MappingsReturn
    \/ Classify
    \/ SalesFetch
    \/ SalesReturn
    \/ SalesFetchOld
    \/ SalesReturnOld

SpecReport == InitReport /\ [][NextReport]_vars

----------------------------------------------------------------------------
(* Properties of the crawls, checked under SpecReport *)

\* the catalog crawl has left its loop normally
CatalogCrawled == ~hasNextPage

\* C8: over a catalog served as N pages (hasNextPage false on the last only)
\* the catalog crawl of fetchProductsAndBundles and of fetchBundleMappings
\* never makes more than N page fetches, and when it has left its loop it
\* has made exactly N and holds the records of all N pages in their order
\* (one fetch and no record for a single empty page).
C8_CrawlFetchesAllPagesInOrder ==
    /\ Len(catalogAfter) <= Len(catalog)
    /\ CatalogCrawled =>
        /\ Len(catalogAfter) = Len(catalog)
        /\ fn = "fetchProductsAndBundles" => products = Flatten(catalog)
        /\ fn = "fetchBundleMappings" =>
             [i \in 1..Len(mappings) |-> mappings[i].product_id]
                = SelectSeq(Flatten(catalog), HasBundleOptionId)
        /\ catalog = << <<>> >> =>
             Len(catalogAfter) = 1 /\ products = <<>> /\ mappings = <<>>

C8_Witness ==
    /\ fn = "fetchProductsAndBundles"
    /\ CatalogCrawled
    /\ Len(catalog) = 3
    /\ Len(catalogAfter) = 3
    /\ products = <<1, 2, 3>>

\* a page fetch that failed: the wrapper threw, or its data lacks the page
FetchFailure(e) == e.status = "thrown" \/ e.shape = "other"

\* C9: if a page fetch of the catalog crawl or of the order-history crawl
\* fails, it is the last fetch of the request (no later page, no restart),
\* and the request ends with an error that wraps the underlying one and
\* carries no partial report.
C9_PageFailureFailsReport ==
    \A k \in 1..Len(fetchLog) :
        FetchFailure(fetchLog[k]) =>
            /\ k = Len(fetchLog)
            /\ Len(catalogAfter) + Len(ordersAfter) = k
            /\ rpc = "done"
            /\ report.status = "error"
            /\ report.wrap = (IF fn = "fetchBundleMappings"
                              THEN "Failed to fetch bundle mappings"
                              ELSE "Failed to fetch products")
            /\ report.cause.status = "thrown"
            /\ fetchLog[k].status = "thrown" =>
                 /\ report.cause.error = fetchLog[k].error
                 /\ report.cause.cause = fetchLog[k].cause
            /\ report.bundledProducts = <<>>

C9_Witness ==
    /\ revision = "server.js"
    /\ Len(ordersAfter) = 2
    /\ Len(fetchLog) = Len(catalogAfter) + 2
    /\ fetchLog[Len(fetchLog)].status = "thrown"
    /\ fetchLog[Len(fetchLog)].error = "MaxRetries"
    /\ report.status = "error"
    /\ report.cause.error = "MaxRetries"

\* the quantity sold under a SKU on the first n pages of the order history
SoldOnPages(sku, n) ==
    LET items == Flatten(Flatten(SubSeq(orderHistory, 1, n)))
        mine == SelectSeq(items, LAMBDA it : it.sku = sku)
    IN  SumSeq([i \in 1..Len(mine) |-> mine[i].quantity])

\* the bundle entries of the report, of all products
ReportedBundles ==
    Flatten([i \in 1..Len(report.bundledProducts) |-> report.bundledProducts[i].bundles])

\* the tier variants of the crawled products that are the last to carry their SKU
CurrentSkuHolders ==
    LET vs == Flatten([i \in 1..Len(products) |->
                          SelectSeq(ProductOf(products[i]).variants, IsTierVariant)])
    IN  {vs[i] : i \in {j \in 1..Len(vs) :
                          /\ vs[j].sku # 0
                          /\ \A l \in (j + 1)..Len(vs) : vs[l].sku # vs[j].sku}}

\* every order page fetch so far returned a well-formed page
OrderPagesFetched ==
    \A k \in (Len(catalogAfter) + 1)..Len(fetchLog) : ~FetchFailure(fetchLog[k])

\* C10 (as claimed): the order-history crawl of a report request makes at most
\* 10 page fetches; when the history is longer, the request ends after the
\* 10th page with a successful report whose totals are those of the 10 pages.
C10_AtMostTenOrderPages ==
    /\ Len(ordersAfter) <= 10
    /\ (/\ rpc = "done"
        /\ Len(ordersAfter) = 10
        /\ Len(orderHistory) > 10
        /\ OrderPagesFetched) =>
            /\ report.status = "ok"
            /\ \A v \in CurrentSkuHolders :
                 \E i \in 1..Len(ReportedBundles) :
                    /\ ReportedBundles[i].variantId = v.id
                    /\ ReportedBundles[i].totalOrders = SoldOnPages(v.sku, 10)

\* the same statement for the revision server.js alone, where it holds
C10_ServerJsAtMostTenOrderPages == revision = "server.js" => C10_AtMostTenOrderPages

C10_ServerJsWitness ==
    /\ revision = "server.js"
    /\ rpc = "done"
    /\ Len(ordersAfter) = 10
    /\ Len(orderHistory) = 12
    /\ report.status = "ok"
    /\ \E i \in 1..Len(ReportedBundles) : ReportedBundles[i].totalOrders > 10

\* the pages of the order history a report reads
PagesRead == IF Len(orderHistory) < 10 THEN Len(orderHistory) ELSE 10

\* C15 (as claimed): the sales are added up by SKU: the quantities of the line
\* items carrying a SKU, whichever variant they name, make one total, and the
\* report shows that total as totalOrders of the tier variant that carries
\* the SKU now.
C15_SalesSummedBySku ==
    (fn = "fetchProductsAndBundles" /\ rpc = "done" /\ report.status = "ok") =>
        \A v \in CurrentSkuHolders :
            \E i \in 1..Len(ReportedBundles) :
                /\ ReportedBundles[i].variantId = v.id
                /\ ReportedBundles[i].totalOrders = SoldOnPages(v.sku, PagesRead)

\* the same statement for the revision server.js alone, where it holds
C15_ServerJsSalesSummedBySku == revision = "server.js" => C15_SalesSummedBySku

\* server.js rendered a report in which the total of a tier variant counts
\* line items that name another variant with the same SKU
C15_ServerJsWitness ==
    /\ revision = "server.js"
    /\ fn = "fetchProductsAndBundles" /\ rpc = "done" /\ report.status = "ok"
    /\ \E v \in CurrentSkuHolders :
          LET items == Flatten(Flatten(SubSeq(orderHistory, 1, PagesRead)))
          IN  /\ \E a, b \in 1..Len(items) :
                    /\ items[a].sku = v.sku /\ items[b].sku = v.sku
                    /\ items[a].variant = v.id /\ items[b].variant # v.id
              /\ \E i \in 1..Len(ReportedBundles) :
                    /\ ReportedBundles[i].variantId = v.id
                    /\ ReportedBundles[i].totalOrders = SoldOnPages(v.sku, PagesRead)
                    /\ ReportedBundles[i].totalOrders > 2

----------------------------------------------------------------------------
(* The server: create-bundles, update-bundles and track-bundle-visit       *)
(* requests served together, the limiter, and the requests at the platform *)

\* pipelines and requests under way together
MaxTasks == 2

\* variants a product has before its bundles are created
NVariants == 2

\* new Bottleneck({ minTime: 500, maxConcurrent: 1 })
maxConcurrent == 1

CONCURRENCY_CHUNK_SIZE == 15

\* the quantities of the three tiers built by processProduct
bundles == <<1, 2, 3>>

ProductIds == {1, 2}

\* the stored value of a metafield: absent, a text that is no number, or a number
Missing == [kind |-> "missing", n |-> 0]

TextValue == [kind |-> "text", n |-> 0]

Number(n) == [kind |-> "number", n |-> n]

\* what the data of an answer says, as far as the handlers read it
Sound ==
    [found |-> TRUE, nVariants |-> NVariants, location |-> TRUE, inventory |-> 5,
     bundleOption |-> TRUE, tiers |-> TRUE, userErrors |-> FALSE,
     defaultTitle |-> TRUE, image |-> TRUE, value |-> Missing]

\* the data the platform may answer a GraphQL operation of a given step with
ReplyViews(step) ==
    CASE step = "fetch" ->
            {Sound, [Sound EXCEPT !.found = FALSE], [Sound EXCEPT !.nVariants = 0],
             [Sound EXCEPT !.location = FALSE], [Sound EXCEPT !.inventory = 0]}
      [] step = "refetch" ->
            {Sound, [Sound EXCEPT !.found = FALSE], [Sound EXCEPT !.bundleOption = FALSE]}
      [] step \in {"bulkCreate", "bulkUpdate", "write"} ->
            {Sound, [Sound EXCEPT !.userErrors = TRUE]}
      [] step = "defaultQuery" ->
            {Sound, [Sound EXCEPT !.defaultTitle = FALSE], [Sound EXCEPT !.image = FALSE]}
      [] step = "updateFetch" ->
            {Sound, [Sound EXCEPT !.found = FALSE], [Sound EXCEPT !.nVariants = 0],
             [Sound EXCEPT !.tiers = FALSE]}
      [] step = "read" -> {[Sound EXCEPT !.value = stored]}
      [] OTHER -> {Sound}

\* fault injection: the userErrors of a mutation are not looked at (C22 detects it)
hasUserErrors_Never(d) == FALSE

\* userErrors.length > 0, of the payload of a mutation
hasUserErrors(d) == d.userErrors

\* the steps whose call is a REST call
RestSteps == {"metafield", "deleteOld", "options", "defaultDelete", "imageLink"}

\* the platform's answers to a request of a given step
Replies(step) ==
    {OkData(v) : v \in ReplyViews(step)}
    \cup {HttpError(429, "absent", 1), HttpError(500, "absent", 1)}
    \cup (IF step \in RestSteps THEN {} ELSE {OkErrors(<<"THROTTLED">>)})

\* the answer asks the caller to slow down and come again
IsRateLimited(ans) == Is429(ans) \/ IsThrottledAnswer(ans)

\* the last answer an activity received: to which call, on which attempt
NoReply ==
    [step |-> "none", k |-> 0, attempt |-> 0, rateLimited |-> FALSE, userErrors |-> FALSE]

ReplyTo(step, k, attempt, ans) ==
    [step |-> step, k |-> k, attempt |-> attempt, rateLimited |-> IsRateLimited(ans),
     userErrors |-> ans.http = "ok" /\ ~ans.hasErrors /\ ans.data.userErrors]

\* an error thrown by a local helper: new Error(`GraphQL call failed: ${err.message}`)
\* or the axios error itself
LocalError(e, why) == [NoOutcome EXCEPT !.status = "thrown", !.error = e, !.cause = why]

\* the shopifyGraphQLCall local to /create-bundles and to /update-bundles:
\* one axios.post, no limiter, no retry
localGraphQLCall(ans) ==
    IF ans.http = "ok"
    THEN IF ~ans.isObject
         THEN LocalError("GraphQLCallFailed", "TypeError")
         ELSE IF ans.hasErrors
              THEN LocalError("GraphQLCallFailed", "GraphQLErrors")
              ELSE Returned(ans.data)
    ELSE LocalError("GraphQLCallFailed", ans.http)

\* the shopifyApiCall local to /create-bundles: one axios(config), no limiter, no retry
localApiCall(ans) ==
    IF ans.http = "ok" THEN Returned(ans.data) ELSE LocalError("AxiosError", ans.http)

localCall(step, ans) ==
    IF step \in RestSteps THEN localApiCall(ans) ELSE localGraphQLCall(ans)

\* a request handed to axios directly, and one handed to a limited axios method
Direct(owner) == [by |-> owner, via |-> "axios"]

Limited(owner) == [by |-> owner, via |-> "limiter"]

----------------------------------------------------------------------------
(* POST /create-bundles *)

\* fault injection: a chunk takes one element more than its size, so that
\* consecutive chunks share an id (C12 detects it)
chunkArray_Overlap(arr, size) ==
    [c \in 1..((Len(arr) + size - 1) \div size) |->
        SubSeq(arr, (c - 1) * size + 1,
               IF c * size + 1 < Len(arr) THEN c * size + 1 ELSE Len(arr))]

\* const chunkArray = (arr, size) => ...: arr.slice(i, i + size) for i = 0, size, ...
chunkArray(arr, size) ==
    [c \in 1..((Len(arr) + size - 1) \div size) |->
        SubSeq(arr, (c - 1) * size + 1,
               IF c * size < Len(arr) THEN c * size ELSE Len(arr))]

\* productChunks
productChunks == chunkArray(batch.product_ids, CONCURRENCY_CHUNK_SIZE)

\* the pipelines started for chunk c, by their position among all pipelines
ChunkMembers(c) == {i \in 1..Len(pipes) : pipes[i].chunk = c}

\* processProduct(product_id) called for a member of chunk c
NewPipe(id, c) ==
    [product_id |-> id, chunk |-> c, state |-> "called", step |-> "none", k |-> 0,
     nVariants |-> 0, location |-> FALSE, inventory |-> 0, image |-> FALSE,
     error |-> "none", reply |-> NoReply]

\* await of the next platform call of the pipeline
Issue(p, step, k) == [p EXCEPT !.state = "awaiting", !.step = step, !.k = k]

\* throw new Error(`Error processing product ${product_id}: ${err.message}`)
Reject(p, why) == [p EXCEPT !.state = "rejected", !.error = why]

\* return { product_id, success }
Fulfil(p) == [p EXCEPT !.state = "fulfilled"]

PipeSettled(p) == p.state \in {"fulfilled", "rejected"}

\* the checks on the fetched product, then the first delete of an old variant
checkBase(p) ==
    IF p.nVariants = 0 THEN Reject(p, "No variants found.")
    ELSE IF ~p.location THEN Reject(p, "No inventory location found.")
    ELSE IF p.inventory <= 0 THEN Reject(p, "No inventory available.")
    ELSE Issue(p, "deleteOld", 1)

\* the image links, when asked for and when removeDefaultVariant returned an image
linkImages(p, mainImageNode, body) ==
    IF body.add_image /\ mainImageNode THEN Issue(p, "imageLink", 1) ELSE Fulfil(p)

\* processProduct resumed with the result res of the call it awaited
processProduct(p, res, body) ==
    LET ok == res.status = "returned"
        d == res.value
    IN  CASE p.step = "fetch" ->
                IF ~ok THEN Reject(p, res.error)
                ELSE IF ~d.found THEN Reject(p, "Product not found")
                ELSE LET q == [p EXCEPT !.nVariants = d.nVariants,
                                        !.location = d.location,
                                        !.inventory = d.inventory]
                     IN  IF body.bundle_text THEN Issue(q, "metafield", 0)
                         ELSE checkBase(q)
          [] p.step = "metafield" -> checkBase(p)
          [] p.step = "deleteOld" ->
                IF p.k < p.nVariants THEN Issue(p, "deleteOld", p.k + 1)
                ELSE Issue(p, "options", 0)
          [] p.step = "options" ->
                IF ok THEN Issue(p, "refetch", 0) ELSE Reject(p, res.error)
          [] p.step = "refetch" ->
                IF ~ok THEN Reject(p, res.error)
                ELSE IF ~(d.found /\ d.bundleOption)
                     THEN Reject(p, "Bundle option not found after update.")
                     ELSE Issue(p, "bulkCreate", 0)
          [] p.step = "bulkCreate" ->
                IF ~ok THEN Reject(p, res.error)
                ELSE IF hasUserErrors(d) THEN Reject(p, "userErrors")
                ELSE Issue(p, "defaultQuery", 0)
          [] p.step = "defaultQuery" ->
                IF ~ok THEN linkImages(p, FALSE, body)
                ELSE IF d.defaultTitle
                     THEN Issue([p EXCEPT !.image = d.image], "defaultDelete", 0)
                     ELSE linkImages(p, d.image, body)
          [] p.step = "defaultDelete" -> linkImages(p, ok /\ p.image, body)
          [] p.step = "imageLink" ->
                IF p.k < Len(bundles) THEN Issue(p, "imageLink", p.k + 1)
                ELSE Fulfil(p)

\* an entry of the aggregated results
Succeeded(id) == [product_id |-> id, ok |-> TRUE, detail |-> "none"]

Failed(id, why) == [product_id |-> id, ok |-> FALSE, detail |-> why]

\* a submitted product id: a positive number stands for a string of digits
\* (an id as the platform gives them), NotDigits for any other string
NotDigits == 0 - 1

IsDigits(id) == id > 0

\* the product_id put in an entry whose message yields none: "Unknown ID"
UnknownID == 0

\* `Error processing product ${product_id}: ${err.message}`
errorMessage(id, detail) == [id |-> id, detail |-> detail]

\* what Promise.allSettled keeps of a settled pipeline: the value returned,
\* or the reason thrown
settle(p) ==
    IF p.state = "fulfilled"
    THEN [status |-> "fulfilled", value |-> p.product_id,
          reason |-> errorMessage(UnknownID, "none")]
    ELSE [status |-> "rejected", value |-> UnknownID,
          reason |-> errorMessage(p.product_id, p.error)]

\* await Promise.allSettled(promises), for the pipelines of chunk c in order
settledResults(c) ==
    LET first == CHOOSE i \in ChunkMembers(c) : \A j \in ChunkMembers(c) : i <= j
    IN  [j \in 1..Cardinality(ChunkMembers(c)) |-> settle(pipes[first + j - 1])]

\* errorMessage.match(/Error processing product (\d+):/): the digits between
\* the prefix and the colon, when the id is made of digits
matchProductId(message) == IF IsDigits(message.id) THEN message.id ELSE UnknownID

\* the entries of the aggregated results: the value of a fulfilled pipeline,
\* or the product id and the detail read back from the message of a rejected
\* one (raw: the replace found no prefix, the detail is the whole message)
aggregate(allSettledResults) ==
    [i \in 1..Len(allSettledResults) |->
        LET r == allSettledResults[i]
        IN  IF r.status = "fulfilled"
            THEN [product_id |-> r.value, ok |-> TRUE, detail |-> "none", raw |-> FALSE]
            ELSE [product_id |-> matchProductId(r.reason), ok |-> FALSE,
                  detail |-> r.reason.detail, raw |-> ~IsDigits(r.reason.id)]]

\* chunk.map(processProduct): a pipeline is called for every id of the chunk
\* and runs to its first await
startChunk(c) ==
    LET chunk == productChunks[c]
    IN  /\ pipes' = pipes \o [j \in 1..Len(chunk) |-> Issue(NewPipe(chunk[j], c), "fetch", 0)]
        /\ wire' = wire \cup {Direct(<<"create", Len(pipes) + j>>) : j \in 1..Len(chunk)}

\* the handler from the arrival of the request to the await of the first chunk
CreateBundles ==
    /\ batch.state = "received"
    /\ IF batch.product_ids = <<>>
       THEN /\ batch' = [batch EXCEPT !.state = "responded",
                                      !.message = "At least one Product ID is required."]
            /\ UNCHANGED <<pipes, wire>>
       ELSE /\ batch' = [batch EXCEPT !.state = "chunk", !.chunk = 1]
            /\ startChunk(1)
    /\ UNCHANGED <<update, visits, limiter, stored, ShopVars, WrapperVars, ReportVars>>

\* the platform answers the request of a pipeline, which runs to its next await
PipelineAnswer ==
    \E r \in wire :
        /\ r.by[1] = "create"
        /\ LET i == r.by[2]
               p == pipes[i]
           IN  \E ans \in Replies(p.step) :
                 LET q == processProduct([p EXCEPT !.reply = ReplyTo(p.step, p.k, 1, ans)],
                                         localCall(p.step, ans), batch)
                 IN  /\ pipes' = [pipes EXCEPT ![i] = q]
                     /\ wire' = IF q.state = "awaiting" THEN wire ELSE wire \ {r}
        /\ UNCHANGED <<batch, update, visits, limiter, stored, ShopVars, WrapperVars, ReportVars>>

\* Promise.allSettled resolves, every pipeline of the chunk having settled:
\* the results are gathered, then the pause before the next chunk begins, or
\* after the last chunk the results are aggregated and the redirect sent
ChunkSettled ==
    /\ batch.state = "chunk"
    /\ \A i \in ChunkMembers(batch.chunk) : PipeSettled(pipes[i])
    /\ LET all == batch.allSettledResults \o settledResults(batch.chunk)
       IN  batch' = IF batch.chunk < Len(productChunks)
                    THEN [batch EXCEPT !.allSettledResults = all, !.state = "pause"]
                    ELSE [batch EXCEPT !.allSettledResults = all, !.state = "responded",
                                       !.results = aggregate(all), !.message = "results"]
    /\ UNCHANGED <<pipes, wire, update, visits, limiter, stored, ShopVars, WrapperVars, ReportVars>>

\* the pause between two chunks (BATCH_DELAY_MS) ends: the next chunk starts
BatchDelayElapsed ==
    /\ batch.state = "pause"
    /\ batch' = [batch EXCEPT !.state = "chunk", !.chunk = @ + 1]
    /\ startChunk(batch.chunk + 1)
    /\ UNCHANGED <<update, visits, limiter, stored, ShopVars, WrapperVars, ReportVars>>

----------------------------------------------------------------------------
(* POST /update-bundles *)

\* results.push(entry), then the next product of the loop or the redirect
updateNext(u, entry) ==
    IF u.i < Len(u.product_ids)
    THEN [u EXCEPT !.results = Append(@, entry), !.i = @ + 1, !.step = "updateFetch"]
    ELSE [u EXCEPT !.results = Append(@, entry), !.state = "responded"]

\* the loop body resumed with the result res of the call it awaited
updateProduct(u, res) ==
    LET ok == res.status = "returned"
        d == res.value
        id == u.product_ids[u.i]
    IN  CASE u.step = "updateFetch" ->
                IF ~ok THEN updateNext(u, Failed(id, res.error))
                ELSE IF ~d.found THEN updateNext(u, Failed(id, "Product not found"))
                ELSE IF d.nVariants = 0 THEN updateNext(u, Failed(id, "No variants found."))
                ELSE IF ~d.tiers
                     THEN updateNext(u, Failed(id, "No bundle variants (2x/3x) found to update."))
                     ELSE [u EXCEPT !.step = "bulkUpdate"]
          [] u.step = "bulkUpdate" ->
                IF ~ok THEN updateNext(u, Failed(id, res.error))
                ELSE IF hasUserErrors(d) THEN updateNext(u, Failed(id, "GraphQL update errors"))
                ELSE updateNext(u, Succeeded(id))

\* the handler from the arrival of the request to its first await
UpdateBundles ==
    /\ update.state = "received"
    /\ IF update.product_ids = <<>>
       THEN /\ update' = [update EXCEPT !.state = "responded"]
            /\ UNCHANGED wire
       ELSE /\ update' = [update EXCEPT !.state = "awaiting", !.i = 1, !.step = "updateFetch"]
            /\ wire' = wire \cup {Direct(<<"update", 0>>)}
    /\ UNCHANGED <<batch, pipes, visits, limiter, stored, ShopVars, WrapperVars, ReportVars>>

\* the platform answers the request of the update loop, which runs to its next await
UpdateAnswer ==
    \E r \in wire :
        /\ r.by[1] = "update"
        /\ \E ans \in Replies(update.step) :
             LET u == updateProduct([update EXCEPT !.reply = ReplyTo(update.step, update.i, 1, ans)],
                                    localGraphQLCall(ans))
             IN  /\ update' = u
                 /\ wire' = IF u.state = "awaiting" THEN wire ELSE wire \ {r}
        /\ UNCHANGED <<batch, pipes, visits, limiter, stored, ShopVars, WrapperVars, ReportVars>>

----------------------------------------------------------------------------
(* POST /track-bundle-visit, through the global wrapper and the limiter *)

NewVisit(id) ==
    [product_id |-> id, state |-> "received", step |-> "none",
     call |-> NewCall("graphql", "post", "GraphQL"),
     newCount |-> 0, code |-> 0, count |-> 0, reply |-> NoReply]

\* await shopifyGraphQLCall(...): the wrapper is entered
CallGraphQL(v, step) ==
    [v EXCEPT !.state = "calling", !.step = step,
              !.call = NewCall("graphql", "post", "GraphQL")]

\* res.json({ success: true, count }) or res.status(code).json({ success: false })
Respond(v, code, n) == [v EXCEPT !.state = "responded", !.code = code, !.count = n]

\* fault injection: the stored count is not read (C21 detects it)
previousCount_Zero(value) == 0

\* parseInt(metafieldData.value, 10) when there is a value and it is a number, else 0
previousCount(value) == IF value.kind = "number" THEN value.n ELSE 0

\* the handler resumed with the outcome of the wrapper call it awaited
trackVisit(v, outcome) ==
    IF outcome.status = "thrown" THEN Respond(v, 500, 0)
    ELSE CASE v.step = "read" ->
                CallGraphQL([v EXCEPT !.newCount = previousCount(outcome.value.value) + 1],
                            "write")
           [] v.step = "write" ->
                IF hasUserErrors(outcome.value) THEN Respond(v, 500, 0)
                ELSE Respond(v, 200, v.newCount)

\* the handler from the arrival of the request to its first await
TrackBundleVisit ==
    \E j \in 1..Len(visits) :
        /\ visits[j].state = "received"
        /\ visits' = [visits EXCEPT ![j] =
                        IF @.product_id = 0 THEN Respond(@, 400, 0)
                        ELSE CallGraphQL(@, "read")]
        /\ UNCHANGED <<batch, pipes, update, limiter, wire, stored, ShopVars, WrapperVars, ReportVars>>

\* the wrapper's loop test: the request is handed to limitedAxiosPost, which
\* queues it in the limiter, or the retries are exhausted and the handler resumes
WrapperLoop ==
    \E j \in 1..Len(visits) :
        /\ visits[j].state = "calling"
        /\ visits[j].call.pc = "loop"
        /\ LET c == CallLoop(visits[j].call)
           IN  IF c.pc = "done"
               THEN /\ visits' = [visits EXCEPT ![j] = trackVisit([@ EXCEPT !.call = c], c.outcome)]
                    /\ UNCHANGED limiter
               ELSE /\ visits' = [visits EXCEPT ![j].call = c]
                    /\ limiter' = [limiter EXCEPT !.queue = Append(@, <<"visit", j>>)]
        /\ UNCHANGED <<batch, pipes, update, wire, stored, ShopVars, WrapperVars, ReportVars>>

\* the limiter starts its oldest job: a slot is free and minTime has passed
\* since the last start
LimiterStart ==
    /\ limiter.queue # <<>>
    /\ Cardinality(limiter.running) < maxConcurrent
    /\ limiter.spaced
    /\ limiter' = [queue |-> Tail(limiter.queue),
                   running |-> limiter.running \cup {Head(limiter.queue)},
                   spaced |-> FALSE]
    /\ wire' = wire \cup {Limited(Head(limiter.queue))}
    /\ UNCHANGED <<batch, pipes, update, visits, stored, ShopVars, WrapperVars, ReportVars>>

\* minTime (500 ms) has passed since the limiter last started a job
MinTimeElapsed ==
    /\ ~limiter.spaced
    /\ limiter' = [limiter EXCEPT !.spaced = TRUE]
    /\ UNCHANGED <<batch, pipes, update, visits, wire, stored, ShopVars, WrapperVars, ReportVars>>

\* the platform answers a limited request: the job ends, the wrapper handles
\* the answer, and on a final outcome the handler resumes; a write that is
\* answered with success has been stored
VisitAnswer ==
    \E r \in wire :
        /\ r.by[1] = "visit"
        /\ LET j == r.by[2]
               v == visits[j]
           IN  \E ans \in Replies(v.step) :
                 LET c == OnAnswer(v.call, ans)
                     w == [v EXCEPT !.call = c,
                                    !.reply = ReplyTo(v.step, 0, v.call.sent, ans)]
                 IN  /\ visits' = [visits EXCEPT ![j] =
                                     IF c.pc = "done" THEN trackVisit(w, c.outcome) ELSE w]
                     /\ stored' = IF v.step = "write" /\ ans.http = "ok" /\ ~ans.hasErrors
                                       /\ ~ans.data.userErrors
                                  THEN Number(v.newCount) ELSE stored
        /\ wire' = wire \ {r}
        /\ limiter' = [limiter EXCEPT !.running = @ \ {r.by}]
        /\ UNCHANGED <<batch, pipes, update, ShopVars, WrapperVars, ReportVars>>

\* the wait of the wrapper after a rate-limited answer ends
WrapperWake ==
    \E j \in 1..Len(visits) :
        /\ visits[j].state = "calling"
        /\ visits[j].call.pc = "sleep"
        /\ visits' = [visits EXCEPT ![j].call = AfterWait(@)]
        /\ UNCHANGED <<batch, pipes, update, limiter, wire, stored, ShopVars, WrapperVars, ReportVars>>

----------------------------------------------------------------------------
(* SpecServer: up to MaxTasks pipelines and requests served together *)

\* the arrays over S of length at most n
RECURSIVE ArraysUpTo(_, _)
ArraysUpTo(S, n) ==
    IF n = 0 THEN {<<>>}
    ELSE LET shorter == ArraysUpTo(S, n - 1)
         IN  shorter \cup {Append(a, x) : a \in {b \in shorter : Len(b) = n - 1}, x \in S}

\* the product_ids of a request body: product ids are interchangeable, so the
\* first one submitted is product 1
ProductIdArrays == {ids \in ArraysUpTo(ProductIds, MaxTasks) : ids # <<>> => ids[1] = 1}

NewBatch(ids, text, img) ==
    [product_ids |-> ids, bundle_text |-> text, add_image |-> img, state |-> "received",
     chunk |-> 0, allSettledResults |-> <<>>, results |-> <<>>, message |-> "none"]

NewUpdate(ids) ==
    [product_ids |-> ids, state |-> "received", i |-> 0, step |-> "none",
     results |-> <<>>, reply |-> NoReply]

InitServer ==
    /\ \E ids \in ProductIdArrays, text \in BOOLEAN, img \in BOOLEAN :
        /\ ids = <<>> => ~text /\ ~img
        /\ batch = NewBatch(ids, text, img)
    /\ pipes = <<>>
    /\ \E ids \in ProductIdArrays : update = NewUpdate(ids)
    /\ \E vs \in ArraysUpTo({0, 1}, MaxTasks) : visits = [j \in 1..Len(vs) |-> NewVisit(vs[j])]
    /\ Len(batch.product_ids) + (IF update.product_ids = <<>> THEN 0 ELSE 1) + Len(visits)
         <= MaxTasks
    /\ limiter = [queue |-> <<>>, running |-> {}, spaced |-> TRUE]
    /\ wire = {}
    /\ stored \in {Missing, TextValue, Number(1)}
    /\ visits = <<>> => stored = Missing
    /\ ShopIdle
    /\ call = NewCall("graphql", "post", "GraphQL")
    /\ history = <<>>
    /\ slept = <<>>
    /\ ReportIdle

\* no batch of SpecServer has a second chunk, so no pause begins in it and
\* BatchDelayElapsed is left to SpecBatch
NextServer ==
    \/ CreateBundles
    \/ PipelineAnswer
    \/ ChunkSettled
    \/ UpdateBundles
    \/ UpdateAnswer
    \/ TrackBundleVisit
    \/ WrapperLoop
    \/ LimiterStart
    \/ MinTimeElapsed
    \/ VisitAnswer
    \/ WrapperWake

SpecServer == InitServer /\ [][NextServer]_vars

----------------------------------------------------------------------------
(* Properties of the outbound calls, checked under SpecServer *)

\* C6 (as claimed): an activity (a create pipeline, the update loop, a visit)
\* whose call was answered 429 or THROTTLED on an attempt below the budget of
\* 3 is still on that same call, to attempt it again through the retrying
\* wrapper: the answer has neither failed the product nor been passed over.
C6_RateLimitedCallsRetried ==
    /\ \A i \in 1..Len(pipes) :
         LET p == pipes[i]
         IN  (p.reply.rateLimited /\ p.reply.attempt < 3) =>
                p.state = "awaiting" /\ p.step = p.reply.step /\ p.k = p.reply.k
    /\ (update.reply.rateLimited /\ update.reply.attempt < 3) =>
            update.state = "awaiting" /\ update.step = update.reply.step
            /\ update.i = update.reply.k
    /\ \A j \in 1..Len(visits) :
         LET v == visits[j]
         IN  (v.reply.rateLimited /\ v.reply.attempt < 3) =>
                v.state = "calling" /\ v.step = v.reply.step

\* C6, the part the code honours: a visit's call is retried within the budget
C6_VisitCallsRetried ==
    \A j \in 1..Len(visits) :
        LET v == visits[j]
        IN  (v.reply.rateLimited /\ v.reply.attempt < 3) =>
                v.state = "calling" /\ v.step = v.reply.step

\* C7 (as claimed): at every moment at most one outbound request is in flight
\* at the platform, whichever requests and pipelines are being served.
C7_AtMostOneCallInFlight == Cardinality(wire) <= 1

\* C7, the part the code honours: of the limited requests at most one is in flight
C7_AtMostOneLimitedCallInFlight ==
    Cardinality({r \in wire : r.via = "limiter"}) <= maxConcurrent

----------------------------------------------------------------------------
(* SpecBatch: one create-bundles request over a shop whose answers depend   *)
(* on the product alone                                                     *)

\* product ids submitted in one request
MaxBatch == 16

\* the shop: what it answers to a call of the pipeline of product id.  An id
\* that is no product id is no product; of the products, one in four is
\* sound, one is gone, one cannot have its options replaced, one has its
\* bundle variants refused
ShopAnswer(id, step) ==
    IF ~IsDigits(id)
    THEN IF step = "fetch" THEN OkErrors(<<"OTHER">>) ELSE OkData(Sound)
    ELSE CASE id % 4 = 2 /\ step = "fetch" -> OkData([Sound EXCEPT !.found = FALSE])
           [] id % 4 = 3 /\ step = "options" -> HttpError(500, "absent", 1)
           [] id % 4 = 0 /\ step = "bulkCreate" -> OkData([Sound EXCEPT !.userErrors = TRUE])
           [] OTHER -> OkData(Sound)

\* processProduct from its first await to its return or throw
RECURSIVE runPipeline(_, _)
runPipeline(p, body) ==
    IF p.state # "awaiting" THEN p
    ELSE LET ans == ShopAnswer(p.product_id, p.step)
         IN  runPipeline(processProduct([p EXCEPT !.reply = ReplyTo(p.step, p.k, 1, ans)],
                                        localCall(p.step, ans), body),
                         body)

\* a pipeline of the chunk under way runs to its end
PipelineRun ==
    \E i \in 1..Len(pipes) :
        /\ pipes[i].state = "awaiting"
        /\ pipes' = [pipes EXCEPT ![i] = runPipeline(pipes[i], batch)]
        /\ wire' = wire \ {Direct(<<"create", i>>)}
        /\ UNCHANGED <<batch, update, visits, limiter, stored, ShopVars, WrapperVars, ReportVars>>

\* the product_ids of the request: the first n products, or a few ids of
\* which one is no product id
BatchIdArrays ==
    {[i \in 1..n |-> i] : n \in 0..MaxBatch}
    \cup {<<NotDigits>>, <<1, NotDigits, 5>>, <<2, NotDigits>>, <<3, 1, 4>>}

InitBatch ==
    /\ \E ids \in BatchIdArrays, flag \in BOOLEAN :
        /\ flag => Len(ids) <= MaxBatch \div 4
        /\ batch = NewBatch(ids, flag, flag)
    /\ pipes = <<>>
    /\ update = NewUpdate(<<>>)
    /\ visits = <<>>
    /\ limiter = [queue |-> <<>>, running |-> {}, spaced |-> TRUE]
    /\ wire = {}
    /\ stored = Missing
    /\ ShopIdle
    /\ call = NewCall("graphql", "post", "GraphQL")
    /\ history = <<>>
    /\ slept = <<>>
    /\ ReportIdle

NextBatch ==
    \/ CreateBundles
    \/ PipelineRun
    \/ ChunkSettled
    \/ BatchDelayElapsed

SpecBatch == InitBatch /\ [][NextBatch]_vars

----------------------------------------------------------------------------
(* Properties of create-bundles, checked under SpecBatch *)

\* what the shop makes of product id on its own: the pipeline succeeds, or
\* fails with this detail
ShopOutcome(id) ==
    IF ~IsDigits(id) THEN "GraphQLCallFailed"
    ELSE CASE id % 4 = 2 -> "Product not found"
           [] id % 4 = 3 -> "AxiosError"
           [] id % 4 = 0 -> "userErrors"
           [] OTHER -> "none"

\* the entry of the aggregated results is the one product id is due
EntryOf(entry, id) ==
    /\ entry.product_id = id
    /\ entry.ok = (ShopOutcome(id) = "none")
    /\ entry.detail = ShopOutcome(id)
    /\ ~entry.raw

BatchAggregated == batch.state = "responded" /\ batch.message = "results"

\* C11 (as claimed): the aggregated results of a batch hold one entry per
\* submitted product id, in the order submitted; the entry of a product whose
\* pipeline failed carries that product's id and the error detail; and every
\* entry is the one its product gets on its own, whatever the others did.
C11_OneEntryPerProductInOrder ==
    BatchAggregated =>
        /\ Len(batch.results) = Len(batch.product_ids)
        /\ \A i \in 1..Len(batch.product_ids) :
              EntryOf(batch.results[i], batch.product_ids[i])

\* the same, of the submitted ids that are made of digits (holds)
C11_DigitIdsReported ==
    BatchAggregated =>
        /\ Len(batch.results) = Len(batch.product_ids)
        /\ \A i \in 1..Len(batch.product_ids) :
              IsDigits(batch.product_ids[i]) =>
                  EntryOf(batch.results[i], batch.product_ids[i])

\* a batch was aggregated in which a product failed between two that succeeded
C11_DigitIdsWitness ==
    /\ BatchAggregated
    /\ \E i, j, k \in 1..Len(batch.results) :
          /\ i < j /\ j < k
          /\ batch.results[i].ok /\ ~batch.results[j].ok /\ batch.results[k].ok

\* C12: the submitted product ids are cut into consecutive chunks of at most
\* 15, in order, every id in exactly one chunk; a pipeline is started for every
\* id of a chunk at once; and the pipelines of a chunk exist only when every
\* pipeline of the chunks before it has settled and the pause that follows
\* them is over.
C12_ChunksOfFifteenInTurn ==
    batch.state # "received" =>
        /\ Flatten(productChunks) = batch.product_ids
        /\ \A c \in 1..Len(productChunks) :
              Len(productChunks[c]) >= 1 /\ Len(productChunks[c]) <= 15
        /\ \A i \in 1..Len(pipes) :
              /\ pipes[i].product_id = batch.product_ids[i]
              /\ pipes[i].chunk = ((i - 1) \div 15) + 1
              /\ pipes[i].chunk <= batch.chunk
              /\ pipes[i].state # "called"
              /\ \A j \in 1..Len(pipes) :
                    pipes[j].chunk < pipes[i].chunk => PipeSettled(pipes[j])
        /\ \A c \in 1..Len(productChunks) :
              ChunkMembers(c) # {} => Cardinality(ChunkMembers(c)) = Len(productChunks[c])
        /\ batch.state = "pause" =>
              /\ ChunkMembers(batch.chunk + 1) = {}
              /\ \A i \in 1..Len(pipes) : PipeSettled(pipes[i])

\* sixteen ids were submitted, and the second chunk runs after a first chunk
\* of fifteen pipelines of which some succeeded and some failed
C12_Witness ==
    /\ Len(batch.product_ids) = 16
    /\ batch.state = "chunk" /\ batch.chunk = 2
    /\ Cardinality(ChunkMembers(1)) = 15
    /\ ChunkMembers(2) = {16} /\ pipes[16].state = "awaiting"
    /\ \E i, j \in ChunkMembers(1) :
          pipes[i].state = "fulfilled" /\ pipes[j].state = "rejected"

----------------------------------------------------------------------------
(* SpecListing: a report request (or a fetchBundleMappings call) over a     *)
(* catalog of one product of the shelf                                      *)

InitListing ==
    /\ fn \in {"fetchProductsAndBundles", "fetchBundleMappings"}
    /\ revision \in {"server.js", "part_000"}
    /\ \E id \in ShelfIds : catalog = << <<id>> >>
    /\ orderHistory \in {<<>>, <<OrderPage(1, 1)>>}
    /\ fn = "fetchBundleMappings" => revision = "server.js" /\ orderHistory = <<>>
    /\ rpc = "catalog"
    /\ products = <<>>
    /\ mappings = <<>>
    /\ cursor = 0
    /\ hasNextPage = TRUE
    /\ catalogAfter = <<>>
    /\ sales = NoSales
    /\ ordersAfter = <<>>
    /\ fetchLog = <<>>
    /\ report = Pending
    /\ call = NewCall("graphql", "post", "GraphQL")
    /\ history = <<>>
    /\ slept = <<>>
    /\ ServerIdle

SpecListing == InitListing /\ [][NextReport]_vars

----------------------------------------------------------------------------
(* Properties of the two lists of the report, checked under SpecListing *)

\* the report was rendered
Rendered == fn = "fetchProductsAndBundles" /\ rpc = "done" /\ report.status = "ok"

InBundleList(id) ==
    \E k \in 1..Len(report.bundledProducts) : report.bundledProducts[k].id = id

InEligibleList(id) ==
    \E k \in 1..Len(report.filteredProducts) : report.filteredProducts[k].id = id

\* the product has exactly one option named "Bundle", whose values include
\* 1x, 2x and 3x
HasTheBundleOption(p) ==
    /\ Cardinality({i \in 1..Len(p.options) : p.options[i].name = "Bundle"}) = 1
    /\ \E i \in 1..Len(p.options) :
          /\ p.options[i].name = "Bundle"
          /\ {"1x", "2x", "3x"} \subseteq {p.options[i].values[j] : j \in 1..Len(p.options[i].values)}

\* C13 (as claimed): a product of the catalog is in the bundle-product list of
\* the report exactly when it has one option named "Bundle" whose values
\* include 1x, 2x and 3x, whatever else is true of the product.
C13_BundleListIffBundleOption ==
    Rendered =>
        \A i \in 1..Len(products) :
            InBundleList(products[i]) <=> HasTheBundleOption(PlatformProduct(products[i]))

\* what the code lists: the products with that option of which one of the
\* first ten variants is a tier variant (holds)
C13_BundleListIffTierVariantFetched ==
    Rendered =>
        \A i \in 1..Len(products) :
            InBundleList(products[i]) <=>
                /\ HasTheBundleOption(PlatformProduct(products[i]))
                /\ \E n \in 1..variantsFirst :
                      /\ n <= Len(PlatformProduct(products[i]).variants)
                      /\ IsTierVariant(PlatformProduct(products[i]).variants[n])

\* fetchBundleMappings goes by the option alone (holds)
C13_MappingsIffBundleOption ==
    (fn = "fetchBundleMappings" /\ rpc = "done" /\ report.status = "ok") =>
        \A id \in ShelfIds :
            (catalog = << <<id>> >>) =>
                ((\E k \in 1..Len(mappings) : mappings[k].product_id = id)
                    <=> HasTheBundleOption(PlatformProduct(id)))

\* a product with the option and its three tier variants is listed, and one
\* with the option is not
C13_Witness ==
    /\ Rendered
    /\ \E i \in 1..Len(products) :
          /\ HasTheBundleOption(PlatformProduct(products[i]))
          /\ Len(PlatformProduct(products[i]).variants) = 3
          /\ InBundleList(products[i])

\* the base variant of a product: the first variant that is no tier variant,
\* or the first variant
BaseVariantOf(p) == baseVariant(p.variants)

\* C14 (as claimed): a product of the catalog is in the eligible-base-product
\* list of the report exactly when its base variant has more than 3 units
\* available, none of its variants has a Bundle value among 1x, 2x, 3x, and
\* each of its options is named "Bundle" or "Title".
C14_EligibleIffStockNoTiersNoOtherOption ==
    Rendered =>
        \A i \in 1..Len(products) :
            LET p == PlatformProduct(products[i])
            IN  InEligibleList(products[i]) <=>
                    /\ BaseVariantOf(p).available > 3
                    /\ \A n \in 1..Len(p.variants) : ~IsTierVariant(p.variants[n])
                    /\ \A o \in 1..Len(p.options) : p.options[o].name \in {"Bundle", "Title"}

\* what the code lists: the same, of the first ten variants of the product (holds)
C14_EligibleByFetchedVariants ==
    Rendered =>
        \A i \in 1..Len(products) :
            LET p == PlatformProduct(products[i])
            IN  InEligibleList(products[i]) <=>
                    /\ BaseVariantOf(p).available > 3
                    /\ \A n \in 1..variantsFirst :
                          n <= Len(p.variants) => ~IsTierVariant(p.variants[n])
                    /\ \A o \in 1..Len(p.options) : p.options[o].name \in {"Bundle", "Title"}

\* a product with stock and a Size option is left out, and one without is listed
C14_Witness ==
    /\ Rendered
    /\ \E i \in 1..Len(products) :
          LET p == PlatformProduct(products[i])
          IN  /\ BaseVariantOf(p).available > 3
              /\ \/ InEligibleList(products[i]) /\ Len(p.variants) = 1
                 \/ ~InEligibleList(products[i])
                    /\ \E o \in 1..Len(p.options) : p.options[o].name = "Size"

----------------------------------------------------------------------------
(* The products of a shop, and what the handlers of create-bundles,         *)
(* update-bundles, sync-bundle-inventory and delete-bundles read of them    *)
(* and send to the platform                                                 *)

\* requests of a handler of which one may be answered with an error
MaxCalls == 11

\* variants(first: 20) of the product query of /delete-bundles
deleteVariantsFirst == 20

\* base prices, in cents
BasePrices == {1000, 995, 1250}

\* discounts, in percent
Discounts == {0, 10, 15, 20, 100}

\* available quantities of a base variant
BaseQuantities == {0 - 3, 0, 1, 5, 37}

ShopShapes == {"plain", "bundled", "keptBase", "sized", "wide"}

\* shapes of a product the create and delete handlers reject: a product
\* without variants, and one whose variant has no inventory level
RejectedShapes == {"empty", "unstocked"}

\* a variant node as the product queries of the handlers read it; location 0
\* stands for a variant without inventory level
PricedVariant(gid, opts, price, avail, loc) ==
    [id |-> gid, sku |-> gid, selectedOptions |-> opts, available |-> avail,
     price |-> price, location |-> loc]

\* the product with this id, as the platform holds it: a plain product; a
\* product as create-bundles leaves it, with the three tiers; a product that
\* kept a base variant (Bundle = Single) beside its tiers; a product with a
\* Size option whose values are 1x and 2x; a product with a Bundle option and a
\* Title option of ten values, forty variants of which the first ten are
\* base variants.  P is the price of the base variant, Q its available quantity
ShopProduct(id, shape, P, Q) ==
    LET B(t) == SelectedOption("Bundle", t)
        shaped ==
            CASE shape = "plain" ->
                    [options |-> <<Option("Title", <<"Default Title">>)>>,
                     variants |-> <<PricedVariant(id * 100 + 1,
                                        <<SelectedOption("Title", "Default Title")>>, P, Q, 7)>>,
                     metafields |-> {}]
              [] shape = "bundled" ->
                    [options |-> <<Option("Bundle", <<"1x", "2x", "3x">>)>>,
                     variants |-> [n \in 1..3 |->
                                     PricedVariant(id * 100 + n, <<B(BundleValues[n + 1])>>,
                                                   P * n, Q \div n, 7)],
                     metafields |-> {"visitors", "extra_text"}]
              [] shape = "keptBase" ->
                    [options |-> <<Option("Bundle", BundleValues)>>,
                     variants |-> [n \in 1..4 |->
                                     IF n = 1
                                     THEN PricedVariant(id * 100 + 1, <<B("Single")>>, P, Q, 7)
                                     ELSE PricedVariant(id * 100 + n, <<B(BundleValues[n])>>,
                                                        P * (n - 1), 1, 8)],
                     metafields |-> {"visitors"}]
              [] shape = "sized" ->
                    [options |-> <<Option("Size", <<"1x", "2x">>)>>,
                     variants |-> [n \in 1..2 |->
                                     PricedVariant(id * 100 + n,
                                                   <<SelectedOption("Size", BundleValues[n + 1])>>,
                                                   P, Q, 7)],
                     metafields |-> {}]
              [] shape = "empty" ->
                    [options |-> <<Option("Title", <<"Default Title">>)>>,
                     variants |-> <<>>,
                     metafields |-> {}]
              [] shape = "unstocked" ->
                    [options |-> <<Option("Title", <<"Default Title">>)>>,
                     variants |-> <<PricedVariant(id * 100 + 1,
                                        <<SelectedOption("Title", "Default Title")>>, P, 0, 0)>>,
                     metafields |-> {}]
              [] OTHER ->
                    [options |-> <<Option("Bundle", BundleValues), Option("Title", TitleValues)>>,
                     variants |-> [n \in 1..40 |->
                                     PricedVariant(id * 100 + n,
                                                   <<B(BundleValues[((n - 1) \div 10) + 1]),
                                                     SelectedOption("Title",
                                                                    TitleValues[((n - 1) % 10) + 1])>>,
                                                   P, Q, 7)],
                     metafields |-> {"visitors", "extra_text"}]
    IN  [id |-> id, options |-> shaped.options, variants |-> shaped.variants,
         metafields |-> shaped.metafields]

\* product(id: ...): the platform has the product
Found(id) == id \in DOMAIN shop

\* product.variants.edges.map(e => e.node) of a query with variants(first: first)
fetchedVariants(id, first) ==
    LET all == shop[id].variants
    IN  SubSeq(all, 1, IF Len(all) < first THEN Len(all) ELSE first)

\* the GraphQL mutations of the four handlers
Mutations == {"bulkCreate", "bulkUpdate", "inventorySet"}

\* the handler so far: the requests it sent, which of them the platform
\* answers with an error (fail, and every request of an operation in down)
\* and which with userErrors (refuse), the per-product results, the
\* deletedCount of delete-bundles and the response
Handling(f) ==
    [sent |-> <<>>, fail |-> f, down |-> {}, refuse |-> 0, results |-> <<>>,
     deletedCount |-> 0, response |-> "none"]

\* the platform answers every request of the operations ops with an error
Rejecting(s, ops) == [s EXCEPT !.down = ops]

\* the platform answers the u-th mutation the handler sends with userErrors
Refusing(s, u) == [s EXCEPT !.refuse = u]

\* await of a call: the request is sent and answered
Send(s, op, target, payload) ==
    [s EXCEPT !.sent = Append(@, [op |-> op, target |-> target, payload |-> payload,
                                  ok |-> Len(@) + 1 # s.fail /\ op \notin s.down,
                                  userErrors |->
                                      /\ op \in Mutations
                                      /\ Len(@) + 1 # s.fail /\ op \notin s.down
                                      /\ s.refuse = 1 + Cardinality({k \in 1..Len(@) :
                                                                      @[k].op \in Mutations})])]

\* the payload of the answer to the call awaited last
Data(s) == s.sent[Len(s.sent)]

\* fault injection: every call is taken to have returned (C33 detects it)
Answered_Always(s) == TRUE

\* the call returned (it did not throw)
Answered(s) == s.sent[Len(s.sent)].ok

RECURSIVE SendDeletes(_, _)
\* for (const variant of variants) { try { await shopifyApiCall("delete", ...) } catch {} }
SendDeletes(s, variants) ==
    IF variants = <<>> THEN s
    ELSE SendDeletes(Send(s, "variantDelete", Head(variants).id, <<>>), Tail(variants))

RECURSIVE SendLinks(_, _, _)
\* for (const variant of ...productVariants) { try { await shopifyApiCall("put", ...) } catch {} }
SendLinks(s, id, created) ==
    IF created = <<>> THEN s
    ELSE SendLinks(Send(s, "imageLink", Head(created), <<[image_id |-> id]>>), id, Tail(created))

\* fault injection: deletedCount++ after every delete attempt (C38 detects it)
countDeleted_Attempts(s) == [s EXCEPT !.deletedCount = @ + 1]

\* try { await shopifyApiCall("delete", ...); deletedCount++; } catch {}
countDeleted(s) == IF Answered(s) THEN [s EXCEPT !.deletedCount = @ + 1] ELSE s

RECURSIVE DeleteEach(_, _)
\* for (const variant of bundleVariantsToDelete) { try { ...delete; deletedCount++ } catch {} }
DeleteEach(s, variants) ==
    IF variants = <<>> THEN s
    ELSE DeleteEach(countDeleted(Send(s, "variantDelete", Head(variants).id, <<>>)),
                    Tail(variants))

Redirect(s, response) == [s EXCEPT !.response = response]

Push(s, entry) == [s EXCEPT !.results = Append(@, entry)]

\* the doubles basePrice * m * (1 - d / 100) that lie below the exact product
\* where the exact product ends in half a cent (IEEE 754 binary64): base
\* price in cents, m, d.  Of the BasePrices and Discounts, for example,
\* 9.95 * 2 * (1 - 15 / 100) is 16.914999999999998 and
\* 12.5 * 3 * (1 - 15 / 100) is 31.875
LiesBelowHalf == {<<995, 2, 15>>, <<995, 3, 10>>}

\* (basePrice * m * (1 - d / 100)).toFixed(2), in cents: the nearest cent of the
\* double; half a cent goes up unless the double lies below it
toFixed(basePrice, m, d) ==
    LET n == basePrice * m * (100 - d)
        q == n \div 100
        r == n % 100
    IN  IF r > 50 THEN q + 1
        ELSE IF r < 50 THEN q
        ELSE IF <<basePrice, m, d>> \in LiesBelowHalf THEN q ELSE q + 1

\* fault injection: the tier quantity is rounded up (C17 detects it)
floor_Ceiling(Q, m) == (Q + m - 1) \div m

\* Math.floor(baseInventory / m)
floor(Q, m) == Q \div m

\* variantsToCreate: the three tiers with price, SKU and quantity
variantsToCreate(base, body) ==
    LET discount(m) == IF m = 2 THEN body.discount2 ELSE IF m = 3 THEN body.discount3 ELSE 0
    IN  [i \in 1..Len(bundles) |->
            [name |-> BundleValues[bundles[i] + 1],
             price |-> toFixed(base.price, bundles[i], discount(bundles[i])),
             availableQuantity |-> floor(base.available, bundles[i]),
             locationId |-> base.location]]

\* what the queries that follow the option update find of the product: a
\* Bundle option, a variant titled Default Title, a main image
Afterwards == [bundleOption : BOOLEAN, defaultTitle : BOOLEAN, image : BOOLEAN]

\* the options were applied, and a Default Title variant and an image are there
AllThere == [bundleOption |-> TRUE, defaultTitle |-> TRUE, image |-> TRUE]

\* fault injection: the stock of the base variant is not looked at (C32 detects it)
thrownBeforeWrites_StockIgnored(variants) ==
    IF variants = <<>> THEN "No variants found."
    ELSE IF baseVariant(variants).location = 0 THEN "No inventory location found."
    ELSE "none"

\* the error processProduct throws over the fetched variants before it
\* deletes any: if (!variants.length) ..., if (!locationId) ...,
\* if (baseInventory <= 0) ...
thrownBeforeWrites(variants) ==
    IF variants = <<>> THEN "No variants found."
    ELSE IF baseVariant(variants).location = 0 THEN "No inventory location found."
    ELSE IF baseVariant(variants).available <= 0 THEN "No inventory available."
    ELSE "none"

\* processProduct, as to what it reads and sends for one product
processProductWrites(s, id, body, after) ==
    LET s1 == Send(s, "productQuery", id, <<>>)
        s2 == IF body.bundle_text
              THEN Send(s1, "metafieldPost", id, <<[key |-> "extra_text"]>>)
              ELSE s1
        variants == fetchedVariants(id, variantsFirst)
        base == baseVariant(variants)
        s3 == SendDeletes(s2, variants)
        s4 == Send(s3, "optionsPut", id, <<[name |-> "Bundle"]>>)
        s5 == Send(s4, "productQuery", id, <<>>)
        s6 == Send(s5, "bulkCreate", id, variantsToCreate(base, body))
        s7 == Send(s6, "defaultQuery", id, <<>>)
        s8 == Send(s7, "defaultDelete", id * 100, <<>>)
        removed == IF ~Answered(s7) THEN [s |-> s7, mainImageNode |-> FALSE]
                   ELSE IF after.defaultTitle
                        THEN [s |-> s8, mainImageNode |-> Answered(s8) /\ after.image]
                        ELSE [s |-> s7, mainImageNode |-> after.image]
        s9 == IF body.add_image /\ removed.mainImageNode
              THEN SendLinks(removed.s, id, [i \in 1..Len(bundles) |-> id * 100 + 50 + i])
              ELSE removed.s
    IN  IF ~Answered(s1) THEN Push(s1, Failed(id, "GraphQLCallFailed"))
        ELSE IF ~Found(id) THEN Push(s1, Failed(id, "Product not found"))
        ELSE IF thrownBeforeWrites(variants) # "none"
             THEN Push(s2, Failed(id, thrownBeforeWrites(variants)))
        ELSE IF ~Answered(s4) THEN Push(s4, Failed(id, "AxiosError"))
        ELSE IF ~Answered(s5) THEN Push(s5, Failed(id, "GraphQLCallFailed"))
        ELSE IF ~after.bundleOption
             THEN Push(s5, Failed(id, "Bundle option not found after update."))
        ELSE IF ~Answered(s6) THEN Push(s6, Failed(id, "GraphQLCallFailed"))
        ELSE IF hasUserErrors(Data(s6)) THEN Push(s6, Failed(id, "userErrors"))
        ELSE Push(s9, Succeeded(id))

\* v.selectedOptions.some((o) => o.value === value)
HasOptionValue(v, value) ==
    \E i \in 1..Len(v.selectedOptions) : v.selectedOptions[i].value = value

\* variants.find((v) => v.selectedOptions.some((o) => o.value === value)), as
\* the list of what was found
variantsWith(variants, value) ==
    IF \E i \in 1..Len(variants) : HasOptionValue(variants[i], value)
    THEN <<variants[CHOOSE i \in 1..Len(variants) :
                       /\ HasOptionValue(variants[i], value)
                       /\ \A j \in 1..(i - 1) : ~HasOptionValue(variants[j], value)]>>
    ELSE <<>>

\* updates: the new price of variant2x and of variant3x
updates(variants, body) ==
    LET basePrice == baseVariant(variants).price
        variant2x == variantsWith(variants, "2x")
        variant3x == variantsWith(variants, "3x")
    IN  [i \in 1..Len(variant2x) |->
            [id |-> variant2x[i].id, price |-> toFixed(basePrice, 2, body.discount2)]]
        \o [i \in 1..Len(variant3x) |->
            [id |-> variant3x[i].id, price |-> toFixed(basePrice, 3, body.discount3)]]

\* the body of the loop of /update-bundles, for one product
updateOne(s, id, body) ==
    LET s1 == Send(s, "productQuery", id, <<>>)
        variants == fetchedVariants(id, variantsFirst)
        s2 == Send(s1, "bulkUpdate", id, updates(variants, body))
    IN  IF ~Answered(s1) THEN Push(s1, Failed(id, "GraphQLCallFailed"))
        ELSE IF ~Found(id) THEN Push(s1, Failed(id, "Product not found"))
        ELSE IF variants = <<>> THEN Push(s1, Failed(id, "No variants found."))
        ELSE IF updates(variants, body) = <<>>
             THEN Push(s1, Failed(id, "No bundle variants (2x/3x) found to update."))
        ELSE IF ~Answered(s2) THEN Push(s2, Failed(id, "GraphQLCallFailed"))
        ELSE IF hasUserErrors(Data(s2)) THEN Push(s2, Failed(id, "GraphQL update errors"))
        ELSE Push(s2, Succeeded(id))

RECURSIVE updateEach(_, _, _)
\* for (const product_id of product_ids) { try { ... } catch { results.push(...) } }
updateEach(s, ids, body) ==
    IF ids = <<>> THEN s
    ELSE updateEach(updateOne(s, Head(ids), body), Tail(ids), body)

\* inventoryToSet: one entry per submitted [bundleType, id] whose id is the id
\* of a fetched variant
inventoryToSet(variants, base, variant_ids) ==
    LET matching == SelectSeq(variant_ids,
                              LAMBDA e : \E i \in 1..Len(variants) : variants[i].id = e.id)
    IN  [k \in 1..Len(matching) |->
            LET newInventory == floor(base.available, tierOf(matching[k].bundleType))
            IN  [inventoryItemId |-> matching[k].id,
                 locationId |-> base.location,
                 quantity |-> IF newInventory >= 0 THEN newInventory ELSE 0]]

\* the handler of /sync-bundle-inventory
syncBundleInventory(s, body) ==
    LET id == body.product_ids[1]
        s1 == Send(s, "productQuery", id, <<>>)
        variants == fetchedVariants(id, variantsFirst)
        bases == SelectSeq(variants, LAMBDA v : ~IsTierVariant(v))
        toSet == inventoryToSet(variants, bases[1], body.variant_ids)
        s2 == Send(s1, "inventorySet", id, toSet)
    IN  IF ~Answered(s1) \/ ~Found(id) THEN Redirect(s1, "Error syncing inventory")
        ELSE IF bases = <<>> THEN Redirect(s1, "No base variant found for product.")
        ELSE IF bases[1].location = 0
             THEN Redirect(s1, "No location found for base variant inventory.")
        ELSE IF toSet = <<>> THEN Redirect(s1, "Bundle inventory synced successfully")
        ELSE IF ~Answered(s2) \/ hasUserErrors(Data(s2))
             THEN Redirect(s2, "Error syncing inventory")
        ELSE Redirect(s2, "Bundle inventory synced successfully")

\* the handler of /delete-bundles
deleteBundles(s, body) ==
    LET id == body.product_ids[1]
        s1 == Send(s, "productQuery", id, <<>>)
        variants == IF Found(id) THEN fetchedVariants(id, deleteVariantsFirst) ELSE <<>>
        bundleVariantsToDelete == SelectSeq(variants, IsTierVariant)
        s2 == DeleteEach(s1, bundleVariantsToDelete)
        s3 == Send(s2, "optionsPut", id, <<[name |-> "Title"]>>)
    IN  IF ~Answered(s1) \/ variants = <<>> THEN Redirect(s1, "Error deleting bundles")
        ELSE IF ~Answered(s3) THEN Redirect(s3, "Error deleting bundles")
        ELSE Redirect(s3, "Successfully deleted")

----------------------------------------------------------------------------
(* SpecShop: one request to one of the four handlers, on a shop of one or   *)
(* two products                                                             *)

NoIds == <<>>

\* variant_ids of a sync request: what the dashboard submits (the mapping of
\* fetchBundleMappings, 0 for null), the ids of the product's tier variants
\* whatever their position, or ids of no variant of the product
SubmittedVariantIds(p) ==
    LET node == [p EXCEPT !.variants =
                    SubSeq(@, 1, IF Len(@) < variantsFirst THEN Len(@) ELSE variantsFirst)]
        lastTier(t) ==
            IF \E i \in 1..Len(p.variants) : option1(p.variants[i]) = t
            THEN p.variants[CHOOSE i \in 1..Len(p.variants) :
                               /\ option1(p.variants[i]) = t
                               /\ \A j \in (i + 1)..Len(p.variants) :
                                      option1(p.variants[j]) # t].id
            ELSE 0
        entries(ids) == [n \in 1..3 |-> [bundleType |-> BundleValues[n + 1],
                                         id |-> ids[BundleValues[n + 1]]]]
    IN  {entries(mappingOf(node).variant_ids),
         entries([t \in {"1x", "2x", "3x"} |-> lastTier(t)]),
         entries([t \in {"1x", "2x", "3x"} |-> 900 + tierOf(t)])}

NewRequest(endpoint, ids, d2, d3, text, variant_ids) ==
    [endpoint |-> endpoint, product_ids |-> ids, discount2 |-> d2, discount3 |-> d3,
     bundle_text |-> text, add_image |-> FALSE, variant_ids |-> variant_ids,
     state |-> "received", results |-> <<>>, deletedCount |-> 0, response |-> "none"]

InitShop ==
    /\ \/ \E shape \in ShopShapes, P \in BasePrices, Q \in BaseQuantities,
             shape2 \in {"plain", "bundled"}, n \in 1..2 :
             shop = [id \in 1..n |-> IF id = 1 THEN ShopProduct(1, shape, P, Q)
                                     ELSE ShopProduct(2, shape2, 1000, 5)]
       \/ \E shape \in RejectedShapes : shop = <<ShopProduct(1, shape, 1000, 5)>>
    /\ \/ \E d2 \in Discounts, d3 \in Discounts, text \in BOOLEAN, img \in BOOLEAN,
               id \in 1..2 :
            /\ Len(shop) = 1
            /\ img => d2 = 10 /\ d3 = 20
            /\ id = 2 => d2 = 10 /\ d3 = 20 /\ shop = <<ShopProduct(1, "plain", 1000, 5)>>
            /\ req = [NewRequest("create", <<id>>, d2, d3, text, NoIds) EXCEPT !.add_image = img]
       \/ \E d2 \in Discounts, d3 \in Discounts, ids \in {<<1>>, <<1, 2>>, <<2, 1>>, <<9, 1>>} :
            /\ Len(shop) = 2 /\ shop[1].variants[1].available = 5
            /\ req = NewRequest("update", ids, d2, d3, FALSE, NoIds)
       \/ \E ids \in SubmittedVariantIds(shop[1]) :
            /\ Len(shop) = 1 /\ shop[1].variants # <<>>
            /\ shop[1].variants[1].location # 0 /\ shop[1].variants[1].price = 1000
            /\ req = NewRequest("sync", <<1>>, 0, 0, FALSE, ids)
       \/ /\ Len(shop) = 1
          /\ shop[1].variants # <<>> =>
                shop[1].variants[1].price = 1000 /\ shop[1].variants[1].available = 5
          /\ req = NewRequest("delete", <<1>>, 0, 0, FALSE, NoIds)
    /\ sent = <<>>
    /\ batch = <<>>
    /\ pipes = <<>>
    /\ update = <<>>
    /\ visits = <<>>
    /\ limiter = <<>>
    /\ wire = {}
    /\ stored = <<>>
    /\ call = NewCall("graphql", "post", "GraphQL")
    /\ history = <<>>
    /\ slept = <<>>
    /\ ReportIdle

\* the request is handled to its response, the platform answering the
\* handler's f-th request (if any) with an error
Handled(s) ==
    /\ sent' = s.sent
    /\ req' = [req EXCEPT !.state = "responded", !.results = s.results,
                          !.deletedCount = s.deletedCount, !.response = s.response]
    /\ UNCHANGED <<shop, batch, pipes, update, visits, limiter, wire, stored,
                   WrapperVars, ReportVars>>

CreateProduct ==
    /\ req.state = "received" /\ req.endpoint = "create"
    /\ \E f \in 0..MaxCalls, u \in 0..1, after \in Afterwards :
          /\ (f # 0 \/ u # 0) => after = AllThere
          /\ Handled(processProductWrites(Refusing(Handling(f), u), req.product_ids[1], req, after))

UpdateProducts ==
    /\ req.state = "received" /\ req.endpoint = "update"
    /\ \E f \in 0..MaxCalls, u \in 0..Len(req.product_ids) :
          Handled(updateEach(Refusing(Handling(f), u), req.product_ids, req))

SyncInventory ==
    /\ req.state = "received" /\ req.endpoint = "sync"
    /\ \E f \in 0..MaxCalls, u \in 0..1 :
          Handled(syncBundleInventory(Refusing(Handling(f), u), req))

DeleteProduct ==
    /\ req.state = "received" /\ req.endpoint = "delete"
    /\ \E f \in 0..MaxCalls, down \in {{}, {"variantDelete"}} :
          /\ down # {} => f = 0
          /\ Handled(deleteBundles(Rejecting(Handling(f), down), req))

NextShop ==
    \/ CreateProduct
    \/ UpdateProducts
    \/ SyncInventory
    \/ DeleteProduct

SpecShop == InitShop /\ [][NextShop]_vars

----------------------------------------------------------------------------
(* Properties of the four handlers, checked under SpecShop *)

Responded == req.state = "responded"

\* the requests of one kind the handler sent
SentOf(op) == SelectSeq(sent, LAMBDA r : r.op = op)

\* the variant of product pid with id vid
VariantOf(pid, vid) ==
    shop[pid].variants[CHOOSE i \in 1..Len(shop[pid].variants) :
                          shop[pid].variants[i].id = vid]

\* P x m x (1 - d / 100) in cents, rounded to the cent, half a cent going up
Rounded(P, m, d) == (P * m * (100 - d) + 50) \div 100

\* C16 (as claimed): the price create-bundles and update-bundles write for the
\* tier m of 2x and 3x under the discount d is basePrice x m x (1 - d / 100)
\* rounded to two decimals, and create-bundles writes the 1x tier at the base
\* price.
C16_TierPricesRounded ==
    Responded =>
        /\ \A k \in 1..Len(SentOf("bulkCreate")) :
              LET r == SentOf("bulkCreate")[k]
                  P == BaseVariantOf(shop[r.target]).price
              IN  /\ r.payload[1].price = P
                  /\ r.payload[2].price = Rounded(P, 2, req.discount2)
                  /\ r.payload[3].price = Rounded(P, 3, req.discount3)
        /\ \A k \in 1..Len(SentOf("bulkUpdate")) :
              LET r == SentOf("bulkUpdate")[k]
                  P == BaseVariantOf(shop[r.target]).price
              IN  \A i \in 1..Len(r.payload) :
                     /\ HasOptionValue(VariantOf(r.target, r.payload[i].id), "2x")
                            => r.payload[i].price = Rounded(P, 2, req.discount2)
                     /\ HasOptionValue(VariantOf(r.target, r.payload[i].id), "3x")
                            => r.payload[i].price = Rounded(P, 3, req.discount3)

\* the price written is a whole number of cents nearest to the exact product,
\* and the 1x tier is written at the base price (holds)
C16_TierPricesNearestCent ==
    Responded =>
        /\ \A k \in 1..Len(SentOf("bulkCreate")) :
              LET r == SentOf("bulkCreate")[k]
                  P == BaseVariantOf(shop[r.target]).price
                  off(i, d) == r.payload[i].price * 100 - P * i * (100 - d)
              IN  /\ r.payload[1].price = P
                  /\ off(2, req.discount2) \in (0 - 50)..50
                  /\ off(3, req.discount3) \in (0 - 50)..50
        /\ \A k \in 1..Len(SentOf("bulkUpdate")) :
              LET r == SentOf("bulkUpdate")[k]
                  P == BaseVariantOf(shop[r.target]).price
                  off(i, m, d) == r.payload[i].price * 100 - P * m * (100 - d)
              IN  \A i \in 1..Len(r.payload) :
                     /\ HasOptionValue(VariantOf(r.target, r.payload[i].id), "2x")
                            => off(i, 2, req.discount2) \in (0 - 50)..50
                     /\ HasOptionValue(VariantOf(r.target, r.payload[i].id), "3x")
                            => off(i, 3, req.discount3) \in (0 - 50)..50

\* the scenario of the specification: base price 10.00, discounts 10 and 20,
\* tiers written at 10.00, 18.00 and 24.00
C16_ScenarioWitness ==
    /\ Responded /\ req.endpoint = "create"
    /\ req.discount2 = 10 /\ req.discount3 = 20
    /\ \E k \in 1..Len(sent) :
          /\ sent[k].op = "bulkCreate"
          /\ <<sent[k].payload[1].price, sent[k].payload[2].price, sent[k].payload[3].price>>
                = <<1000, 1800, 2400>>

\* q is the floor of Q / m
IsFloorOf(q, Q, m) == q * m <= Q /\ Q < (q + 1) * m

\* the base variant a handler finds among the variants it fetched
FetchedBase(pid) == baseVariant(fetchedVariants(pid, variantsFirst))

\* C17: the quantity create-bundles and sync-bundle-inventory write for the
\* tier of multiplier m is the floor of Q / m, Q being the available quantity
\* of the base variant, and 0 where that is negative; no quantity written is
\* negative.
C17_TierQuantityFloored ==
    Responded =>
        /\ \A k \in 1..Len(SentOf("bulkCreate")) :
              LET r == SentOf("bulkCreate")[k]
                  Q == FetchedBase(r.target).available
              IN  \A m \in 1..3 :
                     /\ r.payload[m].availableQuantity >= 0
                     /\ IsFloorOf(r.payload[m].availableQuantity, Q, m)
        /\ \A k \in 1..Len(SentOf("inventorySet")) :
              LET r == SentOf("inventorySet")[k]
                  Q == FetchedBase(r.target).available
              IN  \A i \in 1..Len(r.payload) :
                     /\ r.payload[i].quantity >= 0
                     /\ \E j \in 1..Len(req.variant_ids) :
                           /\ req.variant_ids[j].id = r.payload[i].inventoryItemId
                           /\ \/ IsFloorOf(r.payload[i].quantity, Q,
                                           tierOf(req.variant_ids[j].bundleType))
                              \/ /\ r.payload[i].quantity = 0
                                 /\ \E q \in (0 - 3)..(0 - 1) :
                                       IsFloorOf(q, Q, tierOf(req.variant_ids[j].bundleType))

\* create-bundles wrote 37, 18 and 12 for a base quantity of 37
C17_Witness ==
    /\ Responded /\ req.endpoint = "create"
    /\ FetchedBase(1).available = 37
    /\ \E k \in 1..Len(sent) :
          /\ sent[k].op = "bulkCreate"
          /\ [m \in 1..3 |-> sent[k].payload[m].availableQuantity] = <<37, 18, 12>>

\* sync-bundle-inventory wrote 0 for a negative base quantity, and 18 and 12
\* for a base quantity of 37
C17_SyncWitness ==
    /\ Responded /\ req.endpoint = "sync"
    /\ \E k \in 1..Len(sent) :
          /\ sent[k].op = "inventorySet"
          /\ \/ FetchedBase(1).available < 0 /\ sent[k].payload[1].quantity = 0
             \/ FetchedBase(1).available = 37 /\ sent[k].payload[2].quantity = 18

\* the variant is the 2x or the 3x tier of its product
IsTier2or3(v) == option1(v) \in {"2x", "3x"}

\* C18 (as claimed): update-bundles sets the prices of 2x and 3x tier variants
\* only; a product without a 2x and without a 3x tier variant gets an error
\* entry and no update is sent for it; and every product of the request gets
\* its entry, whatever happened to the ones before it.
C18_UpdateOnlyTiers2and3 ==
    (Responded /\ req.endpoint = "update") =>
        /\ \A k \in 1..Len(SentOf("bulkUpdate")) :
              LET r == SentOf("bulkUpdate")[k]
              IN  \A i \in 1..Len(r.payload) :
                     IsTier2or3(VariantOf(r.target, r.payload[i].id))
        /\ Len(req.results) = Len(req.product_ids)
        /\ \A i \in 1..Len(req.product_ids) :
              LET id == req.product_ids[i]
              IN  /\ req.results[i].product_id = id
                  /\ (Found(id) /\ \A n \in 1..Len(shop[id].variants) :
                                      ~IsTier2or3(shop[id].variants[n]))
                        => /\ ~req.results[i].ok
                           /\ \A k \in 1..Len(SentOf("bulkUpdate")) :
                                 SentOf("bulkUpdate")[k].target # id

\* what the code does: the same, a 2x or 3x variant being one of the fetched
\* variants with the value 2x or 3x for any of its options (holds)
C18_UpdateOnlyVariantsValued2xOr3x ==
    (Responded /\ req.endpoint = "update") =>
        /\ \A k \in 1..Len(SentOf("bulkUpdate")) :
              LET r == SentOf("bulkUpdate")[k]
              IN  \A i \in 1..Len(r.payload) :
                     \/ HasOptionValue(VariantOf(r.target, r.payload[i].id), "2x")
                     \/ HasOptionValue(VariantOf(r.target, r.payload[i].id), "3x")
        /\ Len(req.results) = Len(req.product_ids)
        /\ \A i \in 1..Len(req.product_ids) :
              LET id == req.product_ids[i]
              IN  /\ req.results[i].product_id = id
                  /\ (Found(id) /\ \A n \in 1..Len(fetchedVariants(id, variantsFirst)) :
                                      /\ ~HasOptionValue(shop[id].variants[n], "2x")
                                      /\ ~HasOptionValue(shop[id].variants[n], "3x"))
                        => /\ ~req.results[i].ok
                           /\ \A k \in 1..Len(SentOf("bulkUpdate")) :
                                 SentOf("bulkUpdate")[k].target # id

\* a product without tiers got its error entry and the product after it was updated
C18_Witness ==
    /\ Responded /\ req.endpoint = "update"
    /\ Len(req.results) = 2
    /\ ~req.results[1].ok /\ req.results[1].detail = "No bundle variants (2x/3x) found to update."
    /\ req.results[2].ok
    /\ Len(SentOf("bulkUpdate")) = 1

\* the request ended well
DeleteSucceeded == Responded /\ req.endpoint = "delete" /\ req.response = "Successfully deleted"

\* C19 (as claimed): after a successful delete-bundles request every variant
\* of the product with a Bundle value among 1x, 2x, 3x was deleted, the options
\* were reset to the single option Title, and the metafields bundle.visitors
\* and bundle.extra_text of the product were removed.
C19_DeleteRemovesTiersOptionsMetafields ==
    DeleteSucceeded =>
        LET id == req.product_ids[1]
        IN  /\ \A n \in 1..Len(shop[id].variants) :
                  IsTierVariant(shop[id].variants[n]) =>
                      \E k \in 1..Len(sent) :
                          /\ sent[k].op = "variantDelete"
                          /\ sent[k].target = shop[id].variants[n].id
                          /\ sent[k].ok
            /\ \E k \in 1..Len(sent) :
                  /\ sent[k].op = "optionsPut" /\ sent[k].ok
                  /\ sent[k].payload = <<[name |-> "Title"]>>
            /\ \A key \in shop[id].metafields :
                  \E k \in 1..Len(sent) :
                      /\ sent[k].op = "metafieldDelete"
                      /\ sent[k].payload = <<[key |-> key]>>
                      /\ sent[k].ok

\* what the code does: a delete is sent for every tier variant among the
\* first twenty, the options are reset, and nothing else is sent (holds)
C19_DeleteSendsDeletesAndOptions ==
    DeleteSucceeded =>
        LET id == req.product_ids[1]
            variants == fetchedVariants(id, deleteVariantsFirst)
        IN  /\ \A n \in 1..Len(variants) :
                  IsTierVariant(variants[n]) =>
                      \E k \in 1..Len(sent) :
                          sent[k].op = "variantDelete" /\ sent[k].target = variants[n].id
            /\ sent[Len(sent)].op = "optionsPut" /\ sent[Len(sent)].ok
            /\ sent[Len(sent)].payload = <<[name |-> "Title"]>>
            /\ \A k \in 1..Len(sent) :
                  sent[k].op \in {"productQuery", "variantDelete", "optionsPut"}

\* a product with three tiers and both metafields was deleted with success
C19_Witness ==
    /\ DeleteSucceeded
    /\ shop[1].metafields = {"visitors", "extra_text"}
    /\ Len(SentOf("variantDelete")) = 3
    /\ \A k \in 1..Len(sent) : sent[k].ok

SyncSucceeded ==
    Responded /\ req.endpoint = "sync" /\ req.response = "Bundle inventory synced successfully"

\* the entries due for the submitted ids that are ids of the given variants
EntriesDue(variants, base) ==
    LET matching == SelectSeq(req.variant_ids,
                              LAMBDA e : \E i \in 1..Len(variants) : variants[i].id = e.id)
    IN  [k \in 1..Len(matching) |->
            LET q == base.available \div tierOf(matching[k].bundleType)
            IN  [inventoryItemId |-> matching[k].id, locationId |-> base.location,
                 quantity |-> IF q > 0 THEN q ELSE 0]]

\* C20 (as claimed): a sync-bundle-inventory request sends at most one
\* inventory-set mutation; the mutation of a request that ends well has one
\* entry for each submitted tier variant id that is the id of a variant of the
\* product, with the quantity max(0, floor(baseInventory / multiplier)) at the
\* location of the base variant; and no mutation is sent when no submitted id
\* is the id of a variant.
C20_OneInventorySetPerSync ==
    (Responded /\ req.endpoint = "sync") =>
        /\ Len(SentOf("inventorySet")) <= 1
        /\ SyncSucceeded =>
              LET id == req.product_ids[1]
                  due == EntriesDue(shop[id].variants, FetchedBase(id))
              IN  IF due = <<>> THEN SentOf("inventorySet") = <<>>
                  ELSE /\ Len(SentOf("inventorySet")) = 1
                       /\ SentOf("inventorySet")[1].payload = due

\* what the code does: the same, of the first ten variants of the product (holds)
C20_OneInventorySetOfFetchedVariants ==
    (Responded /\ req.endpoint = "sync") =>
        /\ Len(SentOf("inventorySet")) <= 1
        /\ SyncSucceeded =>
              LET id == req.product_ids[1]
                  due == EntriesDue(fetchedVariants(id, variantsFirst), FetchedBase(id))
              IN  IF due = <<>> THEN SentOf("inventorySet") = <<>>
                  ELSE /\ Len(SentOf("inventorySet")) = 1
                       /\ SentOf("inventorySet")[1].payload = due

\* a sync sent one mutation of three entries, and a sync of ids of no variant
\* sent none
C20_Witness ==
    /\ SyncSucceeded
    /\ \/ Len(SentOf("inventorySet")) = 1 /\ Len(SentOf("inventorySet")[1].payload) = 3
       \/ SentOf("inventorySet") = <<>> /\ req.variant_ids[1].id > 900

----------------------------------------------------------------------------
(* SpecVisits: one or two track-bundle-visit requests served together *)

\* the product_id of the visits served: two visits of product 1, one visit,
\* or a visit of product 1 beside a request without product_id
VisitedIds == {<<1>>, <<1, 1>>, <<0, 1>>}

InitVisits ==
    /\ \E vs \in VisitedIds : visits = [j \in 1..Len(vs) |-> NewVisit(vs[j])]
    /\ stored \in {Missing, TextValue, Number(1)}
    /\ batch = NewBatch(<<>>, FALSE, FALSE)
    /\ pipes = <<>>
    /\ update = NewUpdate(<<>>)
    /\ limiter = [queue |-> <<>>, running |-> {}, spaced |-> TRUE]
    /\ wire = {}
    /\ ShopIdle
    /\ call = NewCall("graphql", "post", "GraphQL")
    /\ history = <<>>
    /\ slept = <<>>
    /\ ReportIdle

NextVisits ==
    \/ TrackBundleVisit
    \/ WrapperLoop
    \/ LimiterStart
    \/ MinTimeElapsed
    \/ VisitAnswer
    \/ WrapperWake

SpecVisits == InitVisits /\ [][NextVisits]_vars

----------------------------------------------------------------------------
(* Properties of the visit counter, checked under SpecVisits *)

\* the count a stored value stands for: its number, 0 when it is absent or no number
CountOf(value) == IF value.kind = "number" THEN value.n ELSE 0

\* C21: a visit reads the counter and writes it in two separate requests: the
\* count it writes is the count stored when its read was answered plus one,
\* and when its write is answered with success that count is stored and
\* reported, whatever was stored in between; so two visits of one product may
\* both read the same count, both succeed, and leave the counter 1 higher.
C21_ReadThenWrite ==
    [][\A j \in 1..Len(visits) :
          /\ (visits[j].step = "read" /\ visits'[j].step = "write")
                => visits'[j].newCount = CountOf(stored) + 1
          /\ (visits[j].state # "responded" /\ visits'[j].state = "responded"
                /\ visits'[j].code = 200)
                => /\ visits[j].step = "write"
                   /\ visits'[j].count = visits[j].newCount
                   /\ stored' = Number(visits[j].newCount)]_vars

\* two visits of the product read the count 1, both were answered with
\* success and the count 2, and the counter is 2: one visit is lost
C21_LostVisit ==
    /\ Len(visits) = 2
    /\ \A j \in 1..2 :
          /\ visits[j].product_id = 1
          /\ visits[j].state = "responded"
          /\ visits[j].code = 200
          /\ visits[j].count = 2
    /\ stored = Number(2)

----------------------------------------------------------------------------
(* SpecMutations: one request that ends in a GraphQL mutation: a            *)
(* create-bundles request for one product, an update-bundles request, a     *)
(* visit, or an inventory sync                                              *)

\* a request answered before
NoBatch == [NewBatch(<<>>, FALSE, FALSE) EXCEPT !.state = "responded"]

NoUpdate == [NewUpdate(<<>>) EXCEPT !.state = "responded"]

\* no request to one of the four maintenance handlers
NoRequest == NewRequest("none", <<>>, 0, 0, FALSE, NoIds)

InitMutations ==
    /\ \/ /\ \E text \in BOOLEAN, img \in BOOLEAN : batch = NewBatch(<<1>>, text, img)
          /\ update = NoUpdate
          /\ visits = <<>> /\ stored = Missing
          /\ shop = <<>> /\ req = NoRequest
       \/ /\ batch = NoBatch
          /\ \E ids \in {<<1>>, <<1, 2>>} : update = NewUpdate(ids)
          /\ visits = <<>> /\ stored = Missing
          /\ shop = <<>> /\ req = NoRequest
       \/ /\ batch = NoBatch
          /\ update = NoUpdate
          /\ visits = <<NewVisit(1)>> /\ stored \in {Missing, Number(1)}
          /\ shop = <<>> /\ req = NoRequest
       \/ /\ batch = NoBatch
          /\ update = NoUpdate
          /\ visits = <<>> /\ stored = Missing
          /\ \E shape \in {"plain", "keptBase"}, Q \in BaseQuantities :
                shop = <<ShopProduct(1, shape, 1000, Q)>>
          /\ \E ids \in SubmittedVariantIds(shop[1]) :
                req = NewRequest("sync", <<1>>, 0, 0, FALSE, ids)
    /\ pipes = <<>>
    /\ sent = <<>>
    /\ limiter = [queue |-> <<>>, running |-> {}, spaced |-> TRUE]
    /\ wire = {}
    /\ call = NewCall("graphql", "post", "GraphQL")
    /\ history = <<>>
    /\ slept = <<>>
    /\ ReportIdle

NextMutations ==
    \/ CreateBundles
    \/ PipelineAnswer
    \/ ChunkSettled
    \/ UpdateBundles
    \/ UpdateAnswer
    \/ TrackBundleVisit
    \/ WrapperLoop
    \/ LimiterStart
    \/ MinTimeElapsed
    \/ VisitAnswer
    \/ WrapperWake
    \/ SyncInventory

SpecMutations == InitMutations /\ [][NextMutations]_vars

----------------------------------------------------------------------------
(* Properties of the mutations, checked under SpecMutations *)

\* C22: a GraphQL mutation (bulk create of the tiers, bulk update of the tier
\* prices, inventory set, visitor metafield set) answered with a non-empty
\* userErrors list fails its operation: the pipeline of the product is
\* rejected and its entry is an error, the update loop has pushed an error
\* entry for the product and gone on, the visit is answered 500, the sync is
\* answered with an error; and the mutation is the last request of the
\* operation, it is not sent again.
C22_UserErrorsFailTheOperation ==
    /\ \A i \in 1..Len(pipes) :
          pipes[i].reply.userErrors =>
              /\ pipes[i].state = "rejected"
              /\ batch.state = "responded" => ~batch.results[i].ok
    /\ update.reply.userErrors =>
          LET k == update.reply.k
          IN  /\ Len(update.results) >= k
              /\ update.results[k].product_id = update.product_ids[k]
              /\ ~update.results[k].ok
              /\ update.state = "awaiting" => update.i > k
    /\ \A j \in 1..Len(visits) :
          visits[j].reply.userErrors =>
              /\ visits[j].state = "responded"
              /\ visits[j].code = 500
              /\ stored # Number(visits[j].newCount)
    /\ \A k \in 1..Len(sent) :
          sent[k].userErrors =>
              /\ k = Len(sent)
              /\ req.response = "Error syncing inventory"

\* the bulk create of a product was answered with userErrors and the batch
\* reports the product as failed
C22_Witness ==
    /\ Len(pipes) = 1
    /\ pipes[1].reply.step = "bulkCreate"
    /\ pipes[1].reply.userErrors
    /\ batch.state = "responded"
    /\ ~batch.results[1].ok

\* the same of the bulk update, the metafield set and the inventory set
C22_OtherMutationsWitness ==
    \/ update.state = "responded" /\ update.reply.userErrors /\ Len(update.results) = 2
    \/ visits # <<>> /\ visits[1].reply.userErrors /\ visits[1].state = "responded"
    \/ sent # <<>> /\ sent[Len(sent)].userErrors /\ req.state = "responded"

----------------------------------------------------------------------------
(* The report request only reads, checked under SpecReport *)

----------------------------------------------------------------------------
(* Waits and termination of the wrappers, checked under SpecWrapper and
   SpecWrapperFair *)

\* the seconds a retry-after header gives, 2 when there is none
HeaderSeconds(a) ==
    CASE a.retryAfter = "absent" -> 2
      [] a.retryAfter = "0" -> 0
      [] a.retryAfter = "3" -> 3

\* C24: the wait after a 429 answer is the retry-after header's seconds
\* (2 s without a header), for the waits that are over and for the one in
\* progress; an attempt after the first is only issued once the wait for the
\* answer before it is over, and no request is in flight during a wait
C24_WaitsRetryAfter ==
    /\ \A k \in 1..Len(slept) :
         Is429(history[k]) => slept[k] = HeaderSeconds(history[k]) * 1000
    /\ (call.pc = "sleep" /\ Is429(Last(history))) =>
         call.sleepMs = HeaderSeconds(Last(history)) * 1000
    /\ call.sent <= Len(slept) + 1
    /\ call.pc = "sleep" => call.sent = Len(history) /\ Len(slept) = Len(history) - 1

\* a 429 with retry-after 3 and a 429 without the header have been waited
\* for, 3 s and 2 s, and the third attempt is in flight
C24_Witness ==
    /\ Len(slept) = 2
    /\ Is429(history[1]) /\ history[1].retryAfter = "3" /\ slept[1] = 3000
    /\ Is429(history[2]) /\ history[2].retryAfter = "absent" /\ slept[2] = 2000
    /\ call.sent = 3
    /\ call.pc = "await"

C26_KnownMethodEnds ==
    /\ [](call.wrapper = "rest" => call.sent <= 3)
    /\ (call.wrapper = "rest" /\ call.method \in RestMethods) ~> (call.pc = "done")

\* a call with a known method has thrown after its third 429
C26_KnownMethodWitness ==
    /\ call.wrapper = "rest"
    /\ call.method \in RestMethods
    /\ call.pc = "done"
    /\ call.sent = 3
    /\ call.outcome.status = "thrown"

\* a call with another method is in its loop and has sent nothing
C26_UnknownMethodWitness ==
    /\ call.wrapper = "rest"
    /\ call.method \notin RestMethods
    /\ call.pc = "loop"
    /\ call.sent = 0

----------------------------------------------------------------------------
(* Spacing of the outbound calls, checked under SpecServer *)

\* the requests a step puts on the wire
Started == wire' \ wire

\* C25: any two outbound calls start at least 500 ms apart: a step starts at
\* most one call, only when 500 ms have passed since the last start, and from
\* that start on the next 500 ms have to pass again
C25_StartsSpaced ==
    [][Started # {} =>
         /\ Cardinality(Started) = 1
         /\ limiter.spaced
         /\ ~limiter'.spaced]_vars

\* the calls made through the limited axios methods start at least 500 ms
\* apart from each other
C25_LimitedStartsSpaced ==
    [][{r \in Started : r.via = "limiter"} # {} =>
         /\ Cardinality({r \in Started : r.via = "limiter"}) = 1
         /\ limiter.spaced
         /\ ~limiter'.spaced]_vars

\* two visits have been answered, each after calls through the limiter
C25_LimitedWitness ==
    /\ Len(visits) = 2
    /\ \A j \in 1..2 : visits[j].state = "responded" /\ visits[j].call.sent >= 1

\* the fetches of two create pipelines are in flight at once
C25_DirectWitness ==
    /\ Len(pipes) = 2
    /\ Direct(<<"create", 1>>) \in wire
    /\ Direct(<<"create", 2>>) \in wire

----------------------------------------------------------------------------
(* Order of the pages of a crawl, checked under SpecReport *)

\* the fetches of the catalog crawl page from the null cursor first, then
\* from the endCursor of the page before, and none pages from a cursor twice
CatalogPagesInOrder ==
    /\ \A k \in 1..Len(catalogAfter) :
         catalogAfter[k] = IF k = 1 THEN 0
                           ELSE ProductsData(catalog, catalogAfter[k - 1]).pageInfo.endCursor
    /\ \A a, b \in 1..Len(catalogAfter) : a # b => catalogAfter[a] # catalogAfter[b]

\* the same for the fetches of the order crawl, which makes no more fetches
\* than the history has pages (one for an empty history)
OrderPagesInOrder ==
    /\ \A k \in 1..Len(ordersAfter) :
         ordersAfter[k] = IF k = 1 THEN 0
                          ELSE OrdersData(orderHistory, ordersAfter[k - 1]).pageInfo.endCursor
    /\ \A a, b \in 1..Len(ordersAfter) : a # b => ordersAfter[a] # ordersAfter[b]
    /\ Len(ordersAfter) <= (IF orderHistory = <<>> THEN 1 ELSE Len(orderHistory))

\* C27: in the catalog crawl and in the order crawl every page after the
\* first is paged from the endCursor of the page before it and no page is
\* requested twice, so the order crawl ends within as many fetches as the
\* history has pages
C27_PagesInCursorOrder == CatalogPagesInOrder /\ OrderPagesInOrder

\* the catalog crawls of both revisions and the order crawl of server.js
\* fetch their pages in cursor order, none twice, and the report of
\* server.js counts the line items of every page read once
C27_ServerJsPagesInCursorOrder ==
    /\ CatalogPagesInOrder
    /\ revision = "server.js" =>
        /\ OrderPagesInOrder
        /\ (fn = "fetchProductsAndBundles" /\ rpc = "done" /\ report.status = "ok") =>
             \A v \in CurrentSkuHolders :
                \E i \in 1..Len(ReportedBundles) :
                    /\ ReportedBundles[i].variantId = v.id
                    /\ ReportedBundles[i].totalOrders = SoldOnPages(v.sku, PagesRead)

\* server.js has rendered a report after reading a history of three pages
C27_ServerJsWitness ==
    /\ revision = "server.js"
    /\ rpc = "done"
    /\ report.status = "ok"
    /\ Len(orderHistory) = 3
    /\ ordersAfter = <<0, 1, 2>>
    /\ Len(catalogAfter) >= 2

\* part_000 has fetched the first page of the orders three times
C27_OldRevisionWitness ==
    /\ revision = "part_000"
    /\ Len(orderHistory) = 3
    /\ ordersAfter = <<0, 0, 0>>
    /\ sales.pageCount = 3

----------------------------------------------------------------------------
(* The calls of a create pipeline and the base variant, checked under
   SpecShop *)

Created == Responded /\ req.endpoint = "create"

\* the place of the k-th request sent in the order of the pipeline's steps
StepRank(k) ==
    CASE sent[k].op = "productQuery" -> IF k = 1 THEN 1 ELSE 5
      [] sent[k].op = "metafieldPost" -> 2
      [] sent[k].op = "variantDelete" -> 3
      [] sent[k].op = "optionsPut" -> 4
      [] sent[k].op = "bulkCreate" -> 6
      [] sent[k].op = "defaultQuery" -> 7
      [] sent[k].op = "defaultDelete" -> 8
      [] sent[k].op = "imageLink" -> 9
      [] OTHER -> 0

\* the requests were sent in the order of the steps; only deletes and image
\* links are sent more than once
SentInStepOrder ==
    /\ Len(sent) >= 1 /\ StepRank(1) = 1
    /\ \A k \in 1..(Len(sent) - 1) :
         \/ StepRank(k) < StepRank(k + 1)
         \/ StepRank(k) = StepRank(k + 1) /\ StepRank(k) \in {3, 9}

\* a delete was sent for each of these variants before the option update
DeletedBeforeOptions(variants) ==
    \A o \in 1..Len(sent) :
        sent[o].op = "optionsPut" =>
            \A i \in 1..Len(variants) :
                \E k \in 1..(o - 1) :
                    sent[k].op = "variantDelete" /\ sent[k].target = variants[i].id

\* no bulk create after an option update or a re-fetch that failed or that
\* found no Bundle option
BulkCreateGuarded ==
    (\/ \E k \in 1..Len(sent) : sent[k].op = "optionsPut" /\ ~sent[k].ok
     \/ \E k \in 2..Len(sent) : sent[k].op = "productQuery" /\ ~sent[k].ok
     \/ SentOf("optionsPut") = <<>>
     \/ Len(SentOf("productQuery")) < 2
     \/ req.results[1].detail = "Bundle option not found after update.")
        => SentOf("bulkCreate") = <<>>

\* C28: the calls of a product's create pipeline are sent in the order fetch,
\* metafield write, a delete for every variant the product has, option
\* update, re-fetch, bulk create, default-variant removal, image links; and
\* no bulk create is sent unless the option update and the re-fetch succeeded
\* and the re-fetch found a Bundle option
C28_CreateCallOrder ==
    Created =>
        /\ SentInStepOrder
        /\ IF Found(req.product_ids[1])
           THEN DeletedBeforeOptions(shop[req.product_ids[1]].variants)
           ELSE SentOf("optionsPut") = <<>>
        /\ BulkCreateGuarded

\* the same, with a delete for every variant the product query returned
C28_CreateCallOrderOfFetchedVariants ==
    Created =>
        /\ SentInStepOrder
        /\ IF Found(req.product_ids[1])
           THEN DeletedBeforeOptions(fetchedVariants(req.product_ids[1], variantsFirst))
           ELSE SentOf("optionsPut") = <<>>
        /\ BulkCreateGuarded

\* a pipeline that went through every step, the optional ones included
C28_Witness ==
    /\ Created
    /\ req.results[1].ok
    /\ \A op \in {"productQuery", "metafieldPost", "variantDelete", "optionsPut",
                  "bulkCreate", "defaultQuery", "defaultDelete", "imageLink"} :
          SentOf(op) # <<>>

\* a pipeline over a product of forty variants that sent ten deletes
C28_WideWitness ==
    /\ Created
    /\ req.results[1].ok
    /\ Len(shop[1].variants) = 40
    /\ Len(SentOf("variantDelete")) = 10

\* a request of the pipeline was answered with an error, or with userErrors
StepFailed(k) == ~sent[k].ok \/ sent[k].userErrors

\* C29: a step of a create pipeline that fails is the last request the
\* pipeline sends, and the product is reported as a failure
C29_AnyStepFailureAborts ==
    Created =>
        \A k \in 1..Len(sent) :
            StepFailed(k) => k = Len(sent) /\ ~req.results[1].ok

\* the steps whose failure the code lets through
AbortingSteps == {"productQuery", "optionsPut", "bulkCreate"}

\* the same of the fetch, the option update, the re-fetch and the bulk create
C29_AbortingStepFailureAborts ==
    Created =>
        \A k \in 1..Len(sent) :
            (StepFailed(k) /\ sent[k].op \in AbortingSteps) =>
                k = Len(sent) /\ ~req.results[1].ok

\* an option update failed and ended the pipeline
C29_AbortWitness ==
    /\ Created
    /\ sent[Len(sent)].op = "optionsPut"
    /\ ~sent[Len(sent)].ok
    /\ ~req.results[1].ok

\* a delete of a variant failed, and the pipeline went on to its last step
\* and reported success
C29_SwallowedWitness ==
    /\ Created
    /\ req.results[1].ok
    /\ \E k \in 1..(Len(sent) - 1) : ~sent[k].ok /\ sent[k].op = "variantDelete"

\* C30: every operation takes for base variant the first variant that is no
\* tier and, all variants being tiers, the first variant: create-bundles and
\* update-bundles compute what they write from it, and sync-bundle-inventory
\* does not fail for want of a base variant but writes the quantities
\* computed from it
C30_BaseVariantFallsBack ==
    LET id == req.product_ids[1]
        variants == fetchedVariants(id, variantsFirst)
        base == baseVariant(variants)
    IN  (Responded /\ Found(id) /\ variants # <<>>) =>
            /\ req.endpoint = "create" =>
                 \A k \in 1..Len(sent) :
                    sent[k].op = "bulkCreate" =>
                        sent[k].payload = variantsToCreate(base, req)
            /\ req.endpoint = "update" =>
                 \A k \in 1..Len(sent) :
                    (sent[k].op = "bulkUpdate" /\ sent[k].target = id) =>
                        sent[k].payload = updates(variants, req)
            /\ (req.endpoint = "sync" /\ sent[1].ok) =>
                 /\ req.response # "No base variant found for product."
                 /\ (base.location # 0 /\ EntriesDue(variants, base) # <<>>) =>
                        /\ Len(SentOf("inventorySet")) = 1
                        /\ SentOf("inventorySet")[1].payload = EntriesDue(variants, base)

\* the same without the inventory sync of a product whose variants are all tiers
C30_BaseVariantExceptSyncOfTiers ==
    (req.endpoint = "sync" => \E i \in 1..Len(shop[1].variants) :
                                ~IsTierVariant(shop[1].variants[i]))
        => C30_BaseVariantFallsBack

\* an update that priced the tiers of a product of exactly three tiers from
\* its first variant
C30_UpdateWitness ==
    /\ Responded /\ req.endpoint = "update"
    /\ \A i \in 1..Len(shop[1].variants) : IsTierVariant(shop[1].variants[i])
    /\ \E k \in 1..Len(sent) :
          sent[k].op = "bulkUpdate" /\ sent[k].target = 1 /\ sent[k].ok

\* a sync of a product of exactly three tiers that ended without a base variant
C30_SyncWitness ==
    /\ Responded /\ req.endpoint = "sync"
    /\ Len(shop[1].variants) = 3
    /\ \A i \in 1..3 : IsTierVariant(shop[1].variants[i])
    /\ req.response = "No base variant found for product."
    /\ SentOf("inventorySet") = <<>>

----------------------------------------------------------------------------
(* The retry budget of the global GraphQL wrapper, checked under SpecWrapper *)

\* an answer after which the GraphQL wrapper waits and tries again
IsRetried(a) == Is429(a) \/ IsThrottledAnswer(a)

\* C31: a call of the global GraphQL wrapper makes at most 3 attempts, one
\* for each answer it got plus at most one in flight, whatever mix of 429
\* and THROTTLED answers it receives; when all its answers were of these two
\* kinds and it has ended, it has made exactly 3 attempts and failed with the
\* max-retries error
C31_SharedRetryBudget ==
    call.wrapper = "graphql" =>
        /\ call.sent <= 3
        /\ call.attempt = Cardinality({k \in 1..Len(slept) : IsRetried(history[k])})
        /\ (\A k \in 1..Len(history) : IsRetried(history[k])) =>
              /\ call.outcome.status # "returned"
              /\ call.pc = "done" =>
                    /\ call.sent = 3
                    /\ Len(history) = 3
                    /\ call.outcome.status = "thrown"
                    /\ call.outcome.error = "MaxRetries"

\* a call answered THROTTLED, then 429, then THROTTLED has failed with the
\* max-retries error after its third attempt
C31_Witness ==
    /\ call.wrapper = "graphql"
    /\ call.pc = "done"
    /\ Len(history) = 3
    /\ IsThrottledAnswer(history[1])
    /\ Is429(history[2])
    /\ IsThrottledAnswer(history[3])
    /\ call.sent = 3
    /\ call.outcome.error = "MaxRetries"

----------------------------------------------------------------------------
(* Products the create pipeline rejects, and pipelines that fail after
   their deletes, checked under SpecShop *)

\* the requests that change the variants or the options of a product
StructuralWrites == {"variantDelete", "optionsPut", "bulkCreate", "defaultDelete", "imageLink"}

\* the product is not found, has no variants, or the first of its variants
\* that is no tier (the first variant, when all are tiers) has no inventory
\* location or nothing available
NotEligible(id) ==
    \/ ~Found(id)
    \/ shop[id].variants = <<>>
    \/ LET vs == shop[id].variants
           nonTiers == {i \in 1..Len(vs) : ~IsTierVariant(vs[i])}
           b == IF nonTiers = {} THEN 1
                ELSE CHOOSE i \in nonTiers : \A j \in nonTiers : i <= j
       IN  vs[b].location = 0 \/ vs[b].available <= 0

\* C32: for a product that is not found, has no variants, or whose base
\* variant has no inventory location or no positive available quantity, the
\* create pipeline sends no variant delete, no option update and no bulk
\* create; it reports the product as a failure, and the only write it may
\* have sent is the extra_text metafield write
C32_RejectedProductUntouched ==
    (Created /\ NotEligible(req.product_ids[1])) =>
        /\ ~req.results[1].ok
        /\ \A k \in 1..Len(sent) :
              /\ sent[k].op \notin StructuralWrites
              /\ k > 1 => sent[k].op = "metafieldPost" /\ req.bundle_text
        /\ ~Found(req.product_ids[1]) => Len(sent) = 1

\* the four rejections, each seen in a response; one of them after a
\* metafield write
C32_Witness ==
    /\ Created
    /\ NotEligible(req.product_ids[1])
    /\ sent[1].ok
    /\ req.results[1].detail \in {"Product not found", "No variants found.",
                                  "No inventory location found.", "No inventory available."}
    /\ req.results[1].detail = "No inventory available." => Len(sent) = 2

\* the k-th request of the pipeline failed fatally: the option update or the
\* re-fetch was answered with an error, the re-fetch found no Bundle option,
\* or the bulk create was answered with an error or with userErrors
FailedFatally(k) ==
    \/ sent[k].op \in {"optionsPut", "bulkCreate"} /\ StepFailed(k)
    \/ /\ sent[k].op = "productQuery" /\ k > 1
       /\ \/ ~sent[k].ok
          \/ req.results[1].detail = "Bundle option not found after update."

\* C33: after a fatal failure of a create pipeline (option update, re-fetch
\* without a Bundle option, bulk create rejected) no further request is sent
\* for the product, so nothing undoes the deletes and the option update sent
\* before it, and the product is reported as a failure
C33_NoCallAfterFatalFailure ==
    Created =>
        \A k \in 1..Len(sent) :
            FailedFatally(k) =>
                /\ k = Len(sent)
                /\ ~req.results[1].ok
                /\ \A j \in 1..(k - 1) :
                      sent[j].op \in {"productQuery", "metafieldPost", "variantDelete",
                                      "optionsPut"}

\* every variant of the product was deleted, then the pipeline failed
\* fatally: the product is left without its variants and without tiers
C33_Witness ==
    /\ Created
    /\ Found(req.product_ids[1])
    /\ FailedFatally(Len(sent))
    /\ \A i \in 1..Len(shop[1].variants) :
          \E j \in 1..Len(sent) :
              sent[j].op = "variantDelete" /\ sent[j].ok
              /\ sent[j].target = shop[1].variants[i].id
    /\ \A j \in 1..Len(sent) : sent[j].op = "bulkCreate" => StepFailed(j)

----------------------------------------------------------------------------
(* Totals of the tiers of a report, checked under SpecReport *)

\* the tier variants of the crawled products, as the report lists them
ListedTiers == {TierVariants(products)[i] : i \in 1..Len(TierVariants(products))}

\* the report shows for the tier variant v the total of the line items of
\* the pages read that carry v's SKU, and 0 when v has no SKU
TotalIsSkuTotal(v) ==
    \E i \in 1..Len(ReportedBundles) :
        /\ ReportedBundles[i].variantId = v.id
        /\ ReportedBundles[i].totalOrders =
              IF v.sku = 0 THEN 0 ELSE SoldOnPages(v.sku, PagesRead)

\* C34: in a report of server.js every bundle tier of every bundle product,
\* also one that shares its SKU with another tier variant, shows as
\* totalOrders the sum of the quantities of the line items of the scanned
\* order pages that carry its SKU, and 0 when it has no SKU
C34_TotalOrdersBySku ==
    (revision = "server.js" /\ Rendered) =>
        \A v \in ListedTiers : TotalIsSkuTotal(v)

\* the same of the tiers without SKU and of the tiers that are the last
\* variant to carry their SKU
C34_TotalOrdersOfLastCarrier ==
    (revision = "server.js" /\ Rendered) =>
        \A v \in ListedTiers :
            (v.sku = 0 \/ v \in CurrentSkuHolders) => TotalIsSkuTotal(v)

\* a report with a tier without SKU showing 0 and a tier showing the sales
\* of its SKU
C34_Witness ==
    /\ revision = "server.js" /\ Rendered
    /\ \E v \in ListedTiers : v.sku = 0 /\ TotalIsSkuTotal(v)
    /\ \E v \in ListedTiers : v \in CurrentSkuHolders /\ TotalIsSkuTotal(v)
                              /\ SoldOnPages(v.sku, PagesRead) > 0

\* a report with two tier variants of one SKU that was sold: the first of
\* them shows 0
C34_SharedSkuWitness ==
    /\ revision = "server.js" /\ Rendered
    /\ \E v, w \in ListedTiers :
          /\ v.id # w.id /\ v.sku = w.sku /\ v.sku # 0
          /\ SoldOnPages(v.sku, PagesRead) > 0
          /\ \E i \in 1..Len(ReportedBundles) :
                ReportedBundles[i].variantId = v.id /\ ReportedBundles[i].totalOrders = 0

----------------------------------------------------------------------------
(* The two lists of a report are disjoint, checked under SpecListing *)

\* C35: no product of the catalog is both in the eligible-base-product list
\* and in the bundle-product list of a report
C35_ListsDisjoint ==
    Rendered =>
        \A i \in 1..Len(products) :
            ~(InEligibleList(products[i]) /\ InBundleList(products[i]))

\* a product with stock above 3 and no option but Bundle and Title is in the
\* bundle list and not in the eligible list
C35_Witness ==
    /\ Rendered
    /\ \E i \in 1..Len(products) :
          LET p == PlatformProduct(products[i])
          IN  /\ BaseVariantOf(p).available > 3
              /\ \A o \in 1..Len(p.options) : p.options[o].name \in {"Bundle", "Title"}
              /\ InBundleList(products[i])
              /\ ~InEligibleList(products[i])

----------------------------------------------------------------------------
(* SpecVisitSeries: track-bundle-visit requests served one after another,   *)
(* by the handler of server.js or by the one of part_000                    *)

\* the answers to one wrapper call of a visit: at most one rate-limited
\* answer and then a last answer, or a rate-limited answer to every attempt
VisitRuns(lasts) ==
    {pre \o <<last>> : pre \in {<<>>, <<HttpError(429, "absent", 1)>>}, last \in lasts}
    \cup {[i \in 1..maxRetries |-> HttpError(429, "absent", 1)]}

\* the body of the answer to GET /products/{id}/metafields.json?namespace=bundle&key=visitors
MetafieldsBody(value) ==
    [metafields |-> IF value.kind = "missing" THEN <<>>
                    ELSE <<[key |-> "visitors", value |-> value]>>]

\* fetchResponse?.metafields || [], fetchResponse being what shopifyApiCall
\* returned: the axios response, whose body is under data
metafieldsRead(fetchResponse) ==
    IF "metafields" \in DOMAIN fetchResponse THEN fetchResponse.metafields ELSE <<>>

\* a visit of part_000 from its request to its response: the value read of
\* the GET, the count written by PUT or POST, the response
trackVisitRest(id, readRun, writeRun) ==
    LET get == RunCall(NewCall("rest", "get", "/products/1/metafields.json"), readRun)
        metafields == metafieldsRead(get.outcome.value)
        existingMetafield == SelectSeq(metafields, LAMBDA m : m.key = "visitors")
        visitorCount == IF existingMetafield = <<>> THEN 1
                        ELSE previousCount(existingMetafield[1].value) + 1
        write == RunCall(NewCall("rest",
                                 IF existingMetafield = <<>> THEN "post" ELSE "put",
                                 "/products/1/metafields.json"), writeRun)
    IN  IF id = 0
        THEN [code |-> 400, count |-> 0, written |-> FALSE, newCount |-> 0,
              call |-> NewCall("rest", "get", "/products/1/metafields.json")]
        ELSE IF get.outcome.status = "thrown"
        THEN [code |-> 500, count |-> 0, written |-> FALSE, newCount |-> 0, call |-> get]
        ELSE IF write.outcome.status = "thrown"
        THEN [code |-> 500, count |-> 0, written |-> FALSE, newCount |-> visitorCount,
              call |-> write]
        ELSE [code |-> 200, count |-> visitorCount, written |-> TRUE,
              newCount |-> visitorCount, call |-> write]

\* a visit of server.js from its request to its response
trackVisitGraphQL(id, readRun, writeRun) ==
    LET v1 == CallGraphQL(NewVisit(id), "read")
        c1 == RunCall(v1.call, readRun)
        v2 == trackVisit([v1 EXCEPT !.call = c1], c1.outcome)
        c2 == RunCall(v2.call, writeRun)
        v3 == trackVisit([v2 EXCEPT !.call = c2], c2.outcome)
        accepted == LET a == writeRun[Len(writeRun)]
                    IN  a.http = "ok" /\ ~a.hasErrors /\ ~a.data.userErrors
    IN  IF id = 0
        THEN [code |-> 400, count |-> 0, written |-> FALSE, newCount |-> 0,
              call |-> NewVisit(id).call]
        ELSE IF v2.state = "responded"
        THEN [code |-> v2.code, count |-> v2.count, written |-> FALSE, newCount |-> 0,
              call |-> c1]
        ELSE [code |-> v3.code, count |-> v3.count, written |-> accepted,
              newCount |-> v2.newCount, call |-> c2]

InitVisitSeries ==
    /\ revision \in {"server.js", "part_000"}
    /\ \E vs \in {<<1>>, <<0, 1>>, <<1, 1>>, <<1, 0, 1>>} :
          visits = [j \in 1..Len(vs) |-> NewVisit(vs[j])]
    /\ stored \in {Missing, TextValue, Number(1)}
    /\ batch = NewBatch(<<>>, FALSE, FALSE)
    /\ pipes = <<>>
    /\ update = NewUpdate(<<>>)
    /\ limiter = [queue |-> <<>>, running |-> {}, spaced |-> TRUE]
    /\ wire = {}
    /\ ShopIdle
    /\ call = NewCall("graphql", "post", "GraphQL")
    /\ history = <<>>
    /\ slept = <<>>
    /\ fn = "none"
    /\ catalog = <<>>
    /\ orderHistory = <<>>
    /\ rpc = "idle"
    /\ products = <<>>
    /\ mappings = <<>>
    /\ cursor = 0
    /\ hasNextPage = FALSE
    /\ catalogAfter = <<>>
    /\ sales = <<>>
    /\ ordersAfter = <<>>
    /\ fetchLog = <<>>
    /\ report = <<>>

\* the oldest request not yet served is served from its arrival to its
\* response, the platform answering its calls
ServeVisit ==
    \E j \in 1..Len(visits) :
        /\ visits[j].state = "received"
        /\ \A i \in 1..(j - 1) : visits[i].state = "responded"
        /\ \E readRun \in VisitRuns(IF revision = "server.js"
                                    THEN {OkData([Sound EXCEPT !.value = stored]),
                                          HttpError(500, "absent", 1)}
                                    ELSE {OkData(MetafieldsBody(stored)),
                                          HttpError(500, "absent", 1)}),
              writeRun \in VisitRuns({OkData(Sound), OkData([Sound EXCEPT !.userErrors = TRUE]),
                                      HttpError(500, "absent", 1)}) :
             LET r == IF revision = "server.js"
                      THEN trackVisitGraphQL(visits[j].product_id, readRun, writeRun)
                      ELSE trackVisitRest(visits[j].product_id, readRun, writeRun)
             IN  /\ visits' = [visits EXCEPT ![j] =
                                 [Respond(@, r.code, r.count) EXCEPT !.call = r.call,
                                                                     !.newCount = r.newCount]]
                 /\ stored' = IF r.written THEN Number(r.newCount) ELSE stored
        /\ UNCHANGED <<batch, pipes, update, limiter, wire, ShopVars, WrapperVars, ReportVars>>

NextVisitSeries == ServeVisit

SpecVisitSeries == InitVisitSeries /\ [][NextVisitSeries]_vars

\* the visit j gets its response in this step
Served(j) == visits[j].state = "received" /\ visits'[j].state = "responded"

\* a visit served alone: when it succeeds the stored counter is 1 above what
\* it was (0 for a missing or non-numeric value) and the response reports
\* it; when it has no product id it is refused without a platform call and
\* the counter stays
VisitCounts(j) ==
    /\ visits'[j].code = 200 =>
          /\ stored' = Number(CountOf(stored) + 1)
          /\ visits'[j].count = CountOf(stored) + 1
    /\ visits[j].product_id = 0 =>
          /\ visits'[j].code = 400
          /\ visits'[j].call.sent = 0
          /\ stored' = stored

\* C36: visits to a product that do not overlap: each successful visit
\* raises the stored visitor counter by exactly 1 and reports the new value,
\* a missing or non-numeric stored value counting as 0, and a request
\* without product id makes no platform call
C36_VisitRaisesCounterByOne ==
    [][\A j \in 1..Len(visits) : Served(j) => VisitCounts(j)]_vars

\* the same of the handler of server.js
C36_ServerJsVisitRaisesCounterByOne ==
    [][\A j \in 1..Len(visits) :
          (Served(j) /\ revision = "server.js") => VisitCounts(j)]_vars

\* server.js has served two visits in a row, the counter going from a text
\* to 1 and to 2, beside a request without product id
C36_ServerJsWitness ==
    /\ revision = "server.js"
    /\ Len(visits) = 3
    /\ \A j \in 1..3 : visits[j].state = "responded"
    /\ visits[1].code = 200 /\ visits[1].count = 1
    /\ visits[2].code = 400
    /\ visits[3].code = 200 /\ visits[3].count = 2
    /\ stored = Number(2)

\* part_000 has served two successful visits, each reporting 1
C36_OldRevisionWitness ==
    /\ revision = "part_000"
    /\ Len(visits) = 2
    /\ \A j \in 1..2 : visits[j].state = "responded" /\ visits[j].code = 200
                       /\ visits[j].count = 1
    /\ stored = Number(1)

----------------------------------------------------------------------------
(* SpecVisitCrowd: three track-bundle-visit requests of one product served  *)
(* together, each handler running from one await to the next without        *)
(* another handler in between                                               *)

InitVisitCrowd ==
    /\ visits = [j \in 1..3 |-> NewVisit(1)]
    /\ stored = Missing
    /\ batch = NewBatch(<<>>, FALSE, FALSE)
    /\ pipes = <<>>
    /\ update = NewUpdate(<<>>)
    /\ limiter = [queue |-> <<>>, running |-> {}, spaced |-> TRUE]
    /\ wire = {}
    /\ ShopIdle
    /\ call = NewCall("graphql", "post", "GraphQL")
    /\ history = <<>>
    /\ slept = <<>>
    /\ ReportIdle

\* a handler has entered the wrapper and not reached its await yet: it runs
\* on before any timer or answer is handled
Resumed ==
    \E j \in 1..Len(visits) : visits[j].state = "calling" /\ visits[j].call.pc = "loop"

NextVisitCrowd ==
    \/ WrapperLoop
    \/ ~Resumed /\ TrackBundleVisit
    \/ ~Resumed /\ LimiterStart
    \/ ~Resumed /\ MinTimeElapsed
    \/ ~Resumed /\ VisitAnswer
    \/ ~Resumed /\ WrapperWake

SpecVisitCrowd == InitVisitCrowd /\ [][NextVisitCrowd]_vars

\* C37: the stored visitor counter of a product never decreases, however the
\* concurrent visits of the product interleave.
C37_CounterNeverDecreases == [][CountOf(stored') >= CountOf(stored)]_vars

\* the counter decreases only by a write that the wrapper sent again after a
\* rate-limited answer: the limiter sends the requests in the order the
\* handlers queued them, and every handler queues its write when its read is
\* answered
C37_OnlyRetriedWriteDecreases ==
    [][CountOf(stored') < CountOf(stored)
          => \E j \in 1..Len(visits) :
                /\ visits[j].step = "write"
                /\ visits[j].call.attempt > 0
                /\ stored' = Number(visits[j].newCount)
                /\ visits'[j].state = "responded"]_vars

\* three visits were answered with success, one of them reported the count 2,
\* and the counter is 1
C37_DecreasedWitness ==
    /\ \A j \in 1..3 : visits[j].state = "responded" /\ visits[j].code = 200
    /\ \E j \in 1..3 : visits[j].count = 2
    /\ stored = Number(1)

\* three visits were answered with success without any rate-limited answer,
\* and the counter is the highest count reported
C37_InOrderWitness ==
    /\ \A j \in 1..3 : visits[j].state = "responded" /\ visits[j].code = 200
                       /\ visits[j].call.attempt = 0
    /\ \E j \in 1..3 : visits[j].count = 2 /\ stored = Number(2)

----------------------------------------------------------------------------
(* Properties of delete-bundles, checked under SpecShop *)

\* C38: in delete-bundles the option reset to "Title" is issued only after
\* every tier-variant delete attempt has finished, and it is issued even when
\* some or all of those deletes failed; the deleted count of the success
\* message is the number of deletes that succeeded; a product with no variants
\* gets an error with no delete and no option reset issued.
C38_ResetAfterDeletesAndCount ==
    (Responded /\ req.endpoint = "delete") =>
        LET id == req.product_ids[1]
            variants == IF Found(id) THEN fetchedVariants(id, deleteVariantsFirst) ELSE <<>>
            tiers == SelectSeq(variants, IsTierVariant)
            deletes == {k \in 1..Len(sent) : sent[k].op = "variantDelete"}
            resets == {k \in 1..Len(sent) : sent[k].op = "optionsPut"}
        IN  /\ \A k \in resets :
                  /\ sent[k].payload = <<[name |-> "Title"]>>
                  /\ \A n \in 1..Len(tiers) :
                        \E i \in deletes : i < k /\ sent[i].target = tiers[n].id
                  /\ \A i \in deletes : i < k
            /\ (sent[1].ok /\ variants # <<>>) => Cardinality(resets) = 1
            /\ DeleteSucceeded
                  => req.deletedCount = Cardinality({k \in deletes : sent[k].ok})
            /\ variants = <<>>
                  => /\ req.response = "Error deleting bundles"
                     /\ deletes = {} /\ resets = {}

\* a product with three tiers: one delete failed, the other two succeeded,
\* the options were reset after them and the message counts 2
C38_Witness ==
    /\ DeleteSucceeded
    /\ Len(SentOf("variantDelete")) = 3
    /\ Cardinality({k \in 1..Len(sent) : sent[k].op = "variantDelete" /\ ~sent[k].ok}) = 1
    /\ sent[Len(sent)].op = "optionsPut"
    /\ req.deletedCount = 2

\* every delete failed, the options were reset all the same and the message
\* counts 0
C38_AllFailedWitness ==
    /\ DeleteSucceeded
    /\ Len(SentOf("variantDelete")) = 3
    /\ \A k \in 1..Len(sent) : sent[k].op = "variantDelete" => ~sent[k].ok
    /\ sent[Len(sent)].op = "optionsPut"
    /\ req.deletedCount = 0

\* a product without variants: the query was answered, the request ends
\* with an error and nothing else was sent
C38_NoVariantsWitness ==
    /\ Responded /\ req.endpoint = "delete"
    /\ shop[1].variants = <<>>
    /\ Len(sent) = 1 /\ sent[1].ok
    /\ req.response = "Error deleting bundles"

----------------------------------------------------------------------------
(* Properties of the pipelines of one batch, checked under SpecServer *)

\* the pipelines that were started and have not settled
InFlight == {i \in 1..Len(pipes) : ~PipeSettled(pipes[i])}

\* C39: within a create-bundles batch no two pipelines operate on the same
\* product at the same time, also when the same product id is submitted more
\* than once in the request.
C39_OnePipelinePerProduct ==
    \A i \in InFlight, j \in InFlight :
        i # j => pipes[i].product_id # pipes[j].product_id

\* what the code does: one pipeline per entry of product_ids, those of a
\* chunk started together; two pipelines in flight work on the same product
\* only when its id was submitted more than once (holds)
C39_OnePipelinePerSubmittedId ==
    /\ \A i \in InFlight, j \in InFlight :
          (i # j /\ pipes[i].product_id = pipes[j].product_id)
             => Cardinality({n \in 1..Len(batch.product_ids) :
                               batch.product_ids[n] = pipes[i].product_id}) > 1
    /\ \A i \in 1..Len(pipes) : pipes[i].product_id = batch.product_ids[i]

\* product 1 was submitted twice and two pipelines work on it at once
C39_TwiceSubmittedWitness ==
    /\ batch.product_ids = <<1, 1>>
    /\ InFlight = {1, 2}
    /\ pipes[1].step # "fetch" /\ pipes[2].step # "fetch"

\* two different products were submitted and a pipeline works on each
C39_DistinctWitness ==
    /\ batch.product_ids = <<1, 2>>
    /\ InFlight = {1, 2}

====
